---- MODULE Spec2Model ----
(***************************************************************************)
(* Model of the batch coordinator of process_videos.py (slot allocation,   *)
(* persisted run state, sequential upload loop) and of the part of         *)
(* TikTokUploader (tiktok_uploader/upload.py) that decides whether one     *)
(* upload is reported as a success, a False return or an exception.        *)
(*                                                                         *)
(* Time.  An aware datetime is a record [t, s, us, off]: t is the instant  *)
(* in whole minutes since the epoch (UTC), s and us are its second and     *)
(* microsecond fields, off is the UTC offset of its tzinfo in minutes.     *)
(* The wall-clock fields the code reads (hour, minute) are those of        *)
(* t + off.  A naive datetime is a record [wall, s, us].                   *)
(***************************************************************************)
EXTENDS Integers, Sequences, FiniteSets, TLC

\* ------------------------------------------------------------------ config
WINDOW_START_HOUR == 9
WINDOW_END_HOUR == 22
SCHEDULE_BUFFER_MIN == 25

\* ------------------------------------------------------------------ bounds
MaxDay == 2          \* clock readings are drawn from days 1..MaxDay
MaxCount == 3        \* largest count handed to next_upload_slots on its own
MaxFiles == 2        \* files that may appear in the videos directory
MaxRuns == 2         \* runs of main in one behaviour
MaxRetries == 2      \* largest num_retries handed to complete_upload_form
MaxPolls == 2        \* turns of _post_video's polling loop before its deadline
MaxText == 3          \* longest text enumerated for the description builder
MaxDelta == 1        \* months between the calendar's month and the target's
MaxCaption == 3      \* longest description enumerated for _set_description
MaxSuggest == 4      \* most elements in the mention suggestion list
MaxBatch == 2        \* most videos in one list handed to upload_videos
MaxStarts == 2       \* browser starts of one uploader in one behaviour
MaxWait == 4         \* largest config.uploading_wait, in seconds

\* ------------------------------------------------------------ host time zone
(* The zone of the host: the UTC offset in force before and from the       *)
(* instant `trans` on.  A zone without daylight saving has before = after. *)
ZoneUTC == [trans |-> 0, before |-> 0, after |-> 0]
ZoneFallBack == [trans |-> 2 * 1440 + 360, before |-> -240, after |-> -300]
ZoneSpringForward == [trans |-> 2 * 1440 + 60, before |-> 60, after |-> 120]
Zones == {ZoneUTC, ZoneFallBack, ZoneSpringForward}

\* UTC offset of the host zone z at the instant t (minutes)
LocalOffset(z, t) == IF t < z.trans THEN z.before ELSE z.after

\* UTC offset the host zone gives to the naive wall-clock minute w
\* (an ambiguous wall time takes the first occurrence, fold = 0)
OffsetAtWall(z, w) == IF w < z.trans + z.before THEN z.before ELSE z.after

\* --------------------------------------------------------- datetime algebra
None == [none |-> TRUE]

Wall(d) == d.t + d.off
Hour(d) == (Wall(d) \div 60) % 24
Minute(d) == Wall(d) % 60
DayOf(d) == Wall(d) \div 1440

\* d + timedelta(minutes = k)
AddMinutes(d, k) == [d EXCEPT !.t = @ + k]

\* d.replace(minute=0, second=0, microsecond=0)
ReplaceMinSecMicro(d) == [d EXCEPT !.t = @ - Minute(d), !.s = 0, !.us = 0]

\* d.replace(second=0, microsecond=0)
ReplaceSecMicro(d) == [d EXCEPT !.s = 0, !.us = 0]

\* d.replace(hour=h, minute=0, second=0, microsecond=0)
ReplaceHour(d, h) ==
    [d EXCEPT !.t = DayOf(d) * 1440 + h * 60 - d.off, !.s = 0, !.us = 0]

\* a < b on aware datetimes: comparison of the instants
Before(a, b) ==
    \/ a.t < b.t
    \/ a.t = b.t /\ a.s < b.s
    \/ a.t = b.t /\ a.s = b.s /\ a.us < b.us

\* max(a, b): the first argument unless the second is greater
MaxDt(a, b) == IF Before(a, b) THEN b ELSE a

\* datetime.now().astimezone() for the clock reading c = [t, s, us]
LocalNow(z, c) == [t |-> c.t, s |-> c.s, us |-> c.us, off |-> LocalOffset(z, c.t)]

\* d.astimezone() for an aware d: same instant, offset of the host zone
AsTimezone(z, d) == [d EXCEPT !.off = LocalOffset(z, d.t)]

\* ------------------------------------------------------- next_upload_slots
\* variant: an hour is added to a whole hour too
RoundUpHour_Always(earliest) == AddMinutes(ReplaceMinSecMicro(earliest), 60)

\* variant: the minutes are cut off, the hour is not added
RoundUpHour_Down(earliest) == ReplaceMinSecMicro(earliest)

RoundUpHour(earliest) ==
    IF earliest.s > 0 \/ earliest.us > 0 \/ Minute(earliest) > 0
    THEN AddMinutes(ReplaceMinSecMicro(earliest), 60)
    ELSE ReplaceSecMicro(earliest)

\* variant: a first candidate after the window is not rolled to the next day
PushIntoWindow_NoRoll(candidate) ==
    IF Hour(candidate) < WINDOW_START_HOUR
    THEN ReplaceHour(candidate, WINDOW_START_HOUR)
    ELSE candidate

\* variant: the first clamp treats the end of the window as outside
PushIntoWindow_Exclusive(candidate) ==
    IF Hour(candidate) < WINDOW_START_HOUR
    THEN ReplaceHour(candidate, WINDOW_START_HOUR)
    ELSE IF Hour(candidate) >= WINDOW_END_HOUR
         THEN ReplaceHour(AddMinutes(candidate, 1440), WINDOW_START_HOUR)
         ELSE candidate

PushIntoWindow(candidate) ==
    IF Hour(candidate) < WINDOW_START_HOUR
    THEN ReplaceHour(candidate, WINDOW_START_HOUR)
    ELSE IF Hour(candidate) > WINDOW_END_HOUR
         THEN ReplaceHour(AddMinutes(candidate, 1440), WINDOW_START_HOUR)
         ELSE candidate

\* variant: the wrap forgets the day
NextCandidate_SameDay(candidate) ==
    LET c == AddMinutes(candidate, 60)
    IN  IF Hour(c) > WINDOW_END_HOUR
        THEN ReplaceHour(c, WINDOW_START_HOUR)
        ELSE c

\* one turn of the while loop after the append: the next candidate
NextCandidate(candidate) ==
    LET c == AddMinutes(candidate, 60)
    IN  IF Hour(c) > WINDOW_END_HOUR
        THEN ReplaceHour(AddMinutes(c, 1440), WINDOW_START_HOUR)
        ELSE c

RECURSIVE SlotLoop(_, _, _)
SlotLoop(slots, candidate, count) ==
    IF Len(slots) < count
    THEN SlotLoop(Append(slots, candidate), NextCandidate(candidate), count)
    ELSE slots

\* variant: the hour after the last slot is not added
Earliest_SameHour(now, last_slot) ==
    LET earliest == AddMinutes(now, SCHEDULE_BUFFER_MIN)
    IN  IF last_slot # None THEN MaxDt(earliest, last_slot) ELSE earliest

\* variant: the previous run's last slot is ignored
Earliest_NoLast(now, last_slot) == AddMinutes(now, SCHEDULE_BUFFER_MIN)

Earliest(now, last_slot) ==
    LET earliest == AddMinutes(now, SCHEDULE_BUFFER_MIN)
    IN  IF last_slot # None
        THEN MaxDt(earliest, AddMinutes(last_slot, 60))
        ELSE earliest

next_upload_slots(count, last_slot, now) ==
    SlotLoop(<< >>, PushIntoWindow(RoundUpHour(Earliest(now, last_slot))), count)

\* --------------------------------------------------- isoformat / naive time
\* slot.isoformat(): the wall-clock fields and the offset, as written out
isoformat(d) == [wall |-> Wall(d), s |-> d.s, us |-> d.us, off |-> d.off]

\* datetime.fromisoformat(text): the instant is the wall clock less the offset
fromisoformat(iso) ==
    [t |-> iso.wall - iso.off, s |-> iso.s, us |-> iso.us, off |-> iso.off]

\* slot.replace(tzinfo=None)
StripTz(d) == [wall |-> Wall(d), s |-> d.s, us |-> d.us]

\* upload.py: schedule.astimezone(pytz.UTC) for a naive schedule, which the
\* library reads as a wall-clock time of the host zone
NaiveToUTC(z, n) ==
    [t |-> n.wall - OffsetAtWall(z, n.wall), s |-> n.s, us |-> n.us, off |-> 0]

\* --------------------------------------------------------- persisted state
DefaultState == [uploaded |-> << >>, last_slot |-> None]

FileMissing == [kind |-> "missing", doc |-> DefaultState]
FileCorrupt == [kind |-> "corrupt", doc |-> DefaultState]

\* load_state(): the parsed document, or the default one when the file is
\* missing or cannot be parsed
load_state(f) == IF f.kind = "json" THEN f.doc ELSE DefaultState

\* save_state(state): the file after write_text has completed
save_state(st) == [kind |-> "json", doc |-> st]

\* ------------------------------------------------------------------- main
Range(seq) == { seq[i] : i \in 1..Len(seq) }

\* sorted(...) of the directory listing; file names are numbered in sort order
RECURSIVE Sorted(_)
Sorted(S) ==
    IF S = {} THEN << >>
    ELSE LET m == CHOOSE x \in S : \A y \in S : x <= y
         IN  << m >> \o Sorted(S \ {m})

\* variant: nothing is filtered out
FilterPending_All(all_videos, already_done) == all_videos

\* videos = [v for v in all_videos if v.name not in already_done]
FilterPending(all_videos, already_done) ==
    SelectSeq(all_videos, LAMBDA v : v \notin already_done)

\* last_slot = fromisoformat(last_slot_iso).astimezone() if last_slot_iso else None
LoadedLastSlot(z, st) ==
    IF st.last_slot # None THEN AsTimezone(z, fromisoformat(st.last_slot)) ELSE None

\* ------------------------------------------------------------ descriptions
\* a str is the sequence of its characters
MUSIC_TAGS ==
    << "#", "S", "p", "e", "e", "d", "R", "e", "c", "o", "r", "d", "s",
       " ", "#", "T", "i", "k", "T", "o", "k", "V", "i", "d", "e", "o",
       "s", " ", "#", "T", "i", "m", "e", "s", "M", "u", "s", "i", "c",
       " ", "#", "T", "r", "e", "n", "d", "i", "n", "g", "S", "o", "n",
       "g", "s", " ", "#", "H", "i", "t", "S", "o", "n", "g", " ", "#",
       "P", "u", "n", "j", "a", "b", "i", "T", "i", "k", "T", "o",
       "k" >>

DEFAULT_TAGS ==
    << "#", "S", "p", "e", "e", "d", "R", "e", "c", "o", "r", "d", "s",
       " ", "#", "T", "i", "k", "T", "o", "k", "V", "i", "d", "e", "o",
       "s", " ", "#", "P", "u", "n", "j", "a", "b", "i", "T", "i", "k",
       "T", "o", "k" >>

Lowers ==
    << "a", "b", "c", "d", "e", "f", "g", "h", "i", "j", "k", "l", "m",
       "n", "o", "p", "q", "r", "s", "t", "u", "v", "w", "x", "y",
       "z" >>

Uppers ==
    << "A", "B", "C", "D", "E", "F", "G", "H", "I", "J", "K", "L", "M",
       "N", "O", "P", "Q", "R", "S", "T", "U", "V", "W", "X", "Y",
       "Z" >>

RECURSIVE LetterIndex(_, _, _)
\* the position of c in the table, 0 when it is not in it
LetterIndex(table, c, i) ==
    IF i > Len(table) THEN 0
    ELSE IF table[i] = c THEN i
    ELSE LetterIndex(table, c, i + 1)

\* str.upper and str.lower, one character
UpperChar(c) ==
    IF LetterIndex(Lowers, c, 1) > 0 THEN Uppers[LetterIndex(Lowers, c, 1)] ELSE c

LowerChar(c) ==
    IF LetterIndex(Uppers, c, 1) > 0 THEN Lowers[LetterIndex(Uppers, c, 1)] ELSE c

\* what \s matches
IsSpace(c) == c = " "

OpenBrackets == {"(", "[", "{"}
CloseBrackets == {")", "]", "}"}

\* the characters of the class of line 195; those a TLA+ string cannot hold
\* (the double quote, the backtick, the en and em dashes) go by name
LoosePunct == {"dquote", "'", "backtick", "-", "endash", "emdash"}

RECURSIVE SkipSpaces(_, _)
\* \s*, from position i: the first position that holds no whitespace
SkipSpaces(s, i) ==
    IF i <= Len(s) /\ IsSpace(s[i]) THEN SkipSpaces(s, i + 1) ELSE i

RECURSIVE FirstClose(_, _)
\* [^\)\]\}]*, from position i: the first position that holds a closing bracket
FirstClose(s, i) ==
    IF i <= Len(s) /\ s[i] \notin CloseBrackets THEN FirstClose(s, i + 1) ELSE i

RECURSIVE RemoveBrackets(_, _)
\* re.sub of line 193, from position i on
RemoveBrackets(s, i) ==
    IF i > Len(s) THEN << >>
    ELSE LET j == SkipSpaces(s, i)
             k == FirstClose(s, j + 1)
         IN  IF j <= Len(s) /\ s[j] \in OpenBrackets /\ k <= Len(s)
             THEN RemoveBrackets(s, k + 1)
             ELSE << s[i] >> \o RemoveBrackets(s, i + 1)

RECURSIVE SkipPunct(_, _)
SkipPunct(s, i) ==
    IF i <= Len(s) /\ s[i] \in LoosePunct THEN SkipPunct(s, i + 1) ELSE i

RECURSIVE ReplacePunct(_, _)
\* re.sub of line 195, from position i on: a run of punctuation becomes " "
ReplacePunct(s, i) ==
    IF i > Len(s) THEN << >>
    ELSE IF s[i] \in LoosePunct
         THEN << " " >> \o ReplacePunct(s, SkipPunct(s, i))
    ELSE << s[i] >> \o ReplacePunct(s, i + 1)

RECURSIVE RStrip(_)
RStrip(s) ==
    IF Len(s) > 0 /\ IsSpace(s[Len(s)]) THEN RStrip(SubSeq(s, 1, Len(s) - 1))
    ELSE s

\* str.strip
Strip(s) == RStrip(SubSeq(s, SkipSpaces(s, 1), Len(s)))

clean_text(text) == Strip(ReplacePunct(RemoveBrackets(text, 1), 1))

\* str.replace of one character by a space (line 203)
ReplaceChar(s, c) == [i \in 1..Len(s) |-> IF s[i] = c THEN " " ELSE s[i]]

RECURSIVE Words(_, _, _)
\* str.split without argument: the whitespace-separated words, none empty
Words(s, i, cur) ==
    IF i > Len(s) THEN (IF cur = << >> THEN << >> ELSE << cur >>)
    ELSE IF IsSpace(s[i])
         THEN (IF cur = << >> THEN << >> ELSE << cur >>) \o Words(s, i + 1, << >>)
    ELSE Words(s, i + 1, Append(cur, s[i]))

\* str.capitalize
Capitalize(w) ==
    [i \in 1..Len(w) |-> IF i = 1 THEN UpperChar(w[i]) ELSE LowerChar(w[i])]

RECURSIVE Concat(_)
\* "".join
Concat(ws) == IF ws = << >> THEN << >> ELSE Head(ws) \o Concat(Tail(ws))

\* _to_hashtag, lines 199-204
to_hashtag(text) ==
    LET words == Words(ReplaceChar(ReplaceChar(clean_text(text), "-"), "_"), 1, << >>)
    IN  << "#" >> \o Concat([i \in 1..Len(words) |-> Capitalize(words[i])])

\* does s hold the word w at position i, whatever the case (re.IGNORECASE)
MatchesAt(s, i, w) ==
    /\ i + Len(w) - 1 <= Len(s)
    /\ \A k \in 1..Len(w) : LowerChar(s[i + k - 1]) = w[k]

\* (?:&|,|ft\.|feat\.) at position i: the length of the match, 0 for none
SeparatorAt(s, i) ==
    IF MatchesAt(s, i, << "&" >>) THEN 1
    ELSE IF MatchesAt(s, i, << "," >>) THEN 1
    ELSE IF MatchesAt(s, i, << "f", "t", "." >>) THEN 3
    ELSE IF MatchesAt(s, i, << "f", "e", "a", "t", "." >>) THEN 5
    ELSE 0

RECURSIVE SplitArtists(_, _, _)
\* re.split of lines 224-226, from position i on, cur being the piece so far
SplitArtists(s, i, cur) ==
    IF i > Len(s) THEN << cur >>
    ELSE LET j == SkipSpaces(s, i)
             n == IF j <= Len(s) THEN SeparatorAt(s, j) ELSE 0
         IN  IF n > 0
             THEN << cur >> \o SplitArtists(s, SkipSpaces(s, j + n), << >>)
             ELSE SplitArtists(s, i + 1, Append(cur, s[i]))

RECURSIVE ArtistTags(_)
\* lines 227-230: one hashtag for every name that is not blank
ArtistTags(names) ==
    IF names = << >> THEN << >>
    ELSE IF Strip(Head(names)) = << >> THEN ArtistTags(Tail(names))
    ELSE << to_hashtag(Strip(Head(names))) >> \o ArtistTags(Tail(names))

RECURSIVE JoinSpace(_)
\* " ".join
JoinSpace(parts) ==
    IF parts = << >> THEN << >>
    ELSE IF Len(parts) = 1 THEN Head(parts)
    ELSE Head(parts) \o << " " >> \o JoinSpace(Tail(parts))

\* a recognition result: None, a dict without "track", or a dict whose
\* "track" holds a title and a subtitle, each of which may be missing
NoTrack == [track |-> None]
Missing == [present |-> FALSE, text |-> << >>]
Text(t) == [present |-> TRUE, text |-> t]
Track(title, subtitle) == [track |-> [title |-> title, subtitle |-> subtitle]]

\* dict.get(key, "")
GetOrEmpty(entry) == IF entry.present THEN entry.text ELSE << >>

\* variant: the test of line 214 is left out
HasText_Always(title, artist) == TRUE

\* line 214: `if title or artist`
HasText(title, artist) == title # << >> \/ artist # << >>

build_description(shazam_result) ==
    IF shazam_result = None \/ shazam_result = NoTrack THEN DEFAULT_TAGS
    ELSE LET title == Strip(GetOrEmpty(shazam_result.track.title))
             artist == Strip(GetOrEmpty(shazam_result.track.subtitle))
         IN  IF ~ HasText(title, artist) THEN DEFAULT_TAGS
             ELSE JoinSpace(
                     (IF title # << >> THEN << to_hashtag(title) >> ELSE << >>)
                     \o (IF artist # << >>
                         THEN ArtistTags(SplitArtists(artist, 1, << >>))
                         ELSE << >>)
                     \o << MUSIC_TAGS >>)

\* variant: a failed audio extraction is not looked at
recognize_song_NoExtractCheck(extractOK, shazamOK, answer) ==
    IF ~ shazamOK THEN None ELSE answer

\* recognize_song, lines 159-179: None when the audio cannot be extracted or
\* the recognition raises, else what the recognition returned
recognize_song(extractOK, shazamOK, answer) ==
    IF ~ extractOK THEN None
    ELSE IF ~ shazamOK THEN None
    ELSE answer

\* ------------------------------------------------- TikTokUploader.upload_video
\* _check_valid_schedule: not earlier than utcnow + 15 + 5 minutes, not later
\* than utcnow + 10 days, minute a multiple of 5
check_valid_schedule(schedule, c) ==
    LET utcnow == [t |-> c.t, s |-> c.s, us |-> c.us, off |-> 0]
        lo == AddMinutes(utcnow, 15 + 5)
        hi == AddMinutes(utcnow, 10 * 1440)
    IN  /\ ~ Before(schedule, lo)
        /\ ~ Before(hi, schedule)
        /\ Minute(schedule) % 5 = 0

\* variant: the step to the next multiple is added to a valid minute too
get_valid_schedule_minute_AlwaysAdd(schedule) ==
    AddMinutes(schedule, 5 - (Minute(schedule) % 5))

\* _get_valid_schedule_minute(schedule, 5)
get_valid_schedule_minute(schedule) ==
    IF Minute(schedule) % 5 = 0 THEN schedule
    ELSE AddMinutes(schedule, 5 - (Minute(schedule) % 5))

\* The page property: [page, ok].  A browser is started only when no page is
\* stored; the stored page is overwritten by the raw browser page before
\* authenticate_agent runs.
\* variant: a browser is started at every access
PageProperty_AlwaysStart(pg, browserOK, authOK) ==
    IF ~ browserOK THEN [page |-> pg, ok |-> FALSE, started |-> FALSE]
    ELSE IF ~ authOK THEN [page |-> "raw", ok |-> FALSE, started |-> TRUE]
    ELSE [page |-> "auth", ok |-> TRUE, started |-> TRUE]

PageProperty(pg, browserOK, authOK) ==
    IF pg # "none" THEN [page |-> pg, ok |-> TRUE, started |-> FALSE]
    ELSE IF ~ browserOK THEN [page |-> "none", ok |-> FALSE, started |-> FALSE]
    ELSE IF ~ authOK THEN [page |-> "raw", ok |-> FALSE, started |-> TRUE]
    ELSE [page |-> "auth", ok |-> TRUE, started |-> TRUE]

\* close, lines 232-239: the stored page after the call
close(pg, closeOK) == "none"

\* upload_video -> upload_videos([video]): [result, page] where result is
\* "true" (empty failed list), "false" (the video is in the failed list) or
\* "raise" (an exception leaves upload_video)
upload_video(pg, naive, c, z, pathOK, browserOK, authOK, formOK) ==
    IF ~ pathOK THEN [result |-> "raise", page |-> pg]     \* _convert_videos_dict
    ELSE LET p == PageProperty(pg, browserOK, authOK)
             schedule == get_valid_schedule_minute(NaiveToUTC(z, naive))
         IN  IF ~ p.ok THEN [result |-> "raise", page |-> p.page]
             ELSE IF ~ check_valid_schedule(schedule, c)
                  THEN [result |-> "false", page |-> p.page]
             ELSE IF ~ formOK THEN [result |-> "false", page |-> p.page]
             ELSE [result |-> "true", page |-> p.page]

\* ------------------------------------------- TikTokUploader.upload_videos
\* _convert_videos_dict, lines 1395-1442: TRUE if it returns, FALSE if it
\* raises RuntimeError (no video, or a video whose path is not a valid one at
\* that moment); a path is "valid", "invalid", or "vanishes" (valid here and
\* no more when the loop looks at it)
convert_videos_dict(videos) ==
    /\ videos # << >>
    /\ \A k \in 1..Len(videos) : videos[k].path # "invalid"

\* lines 177-201 for one schedule: "go" (the form is called with it), "skip"
\* (failed.append and continue) or "error" (an exception, caught at line
\* 218: pytz's localize refuses a datetime that has a tzinfo)
ScheduleBranch(schedule, c, z) ==
    IF schedule = None THEN "go"
    ELSE IF schedule.tz = "naive"
    THEN IF check_valid_schedule(
               get_valid_schedule_minute(NaiveToUTC(z, schedule.at)), c)
         THEN "go" ELSE "skip"
    ELSE IF schedule.tz = "utc" THEN "error"
    ELSE "skip"

\* lines 148-228 for one video: [ok, formed, callback]: whether it stays out
\* of failed, whether complete_upload_form was called, whether line 225 is
\* reached
LoopBody(video, c, z) ==
    IF video.path # "valid"
    THEN [ok |-> FALSE, formed |-> FALSE, callback |-> FALSE]
    ELSE IF ScheduleBranch(video.schedule, c, z) = "skip"
    THEN [ok |-> FALSE, formed |-> FALSE, callback |-> FALSE]
    ELSE IF ScheduleBranch(video.schedule, c, z) = "error"
    THEN [ok |-> FALSE, formed |-> FALSE, callback |-> TRUE]
    ELSE [ok |-> video.formOK, formed |-> TRUE, callback |-> TRUE]

RECURSIVE UploadLoop(_, _, _, _, _, _, _)
\* the for loop of lines 147-228 from video k on; failed and formed hold
\* positions of the list; on_complete is "none", "returns" or "raises"
UploadLoop(videos, k, failed_, formed, c, z, on_complete) ==
    IF k > Len(videos)
    THEN [why |-> "none", attempted |-> k - 1, failed |-> failed_, formed |-> formed]
    ELSE LET b == LoopBody(videos[k], c, z)
             f == IF b.ok THEN failed_ ELSE Append(failed_, k)
             g == IF b.formed THEN Append(formed, k) ELSE formed
         IN  IF b.callback /\ on_complete = "raises"
             THEN [why |-> "callback", attempted |-> k, failed |-> f, formed |-> g]
             ELSE UploadLoop(videos, k + 1, f, g, c, z, on_complete)

\* upload_videos, lines 138-230: why is "none" when the failed list is
\* returned and else names what raised; used is the page handed to the form
upload_videos(videos, pg, c, z, browserOK, authOK, on_complete) ==
    IF ~ convert_videos_dict(videos)
    THEN [why |-> "convert", attempted |-> 0, failed |-> << >>, formed |-> << >>,
          page |-> pg, started |-> FALSE, used |-> "none"]
    ELSE LET p == PageProperty(pg, browserOK, authOK)
         IN  IF ~ p.ok
             THEN [why |-> "page", attempted |-> 0, failed |-> << >>,
                   formed |-> << >>, page |-> p.page, started |-> p.started,
                   used |-> "none"]
             ELSE [page |-> p.page, started |-> p.started, used |-> p.page]
                    @@ UploadLoop(videos, 1, << >>, << >>, c, z, on_complete)

\* ------------------------------------------------------------- upload_all
\* variant: the except clause leaves the loop
AfterFailure_Break(i, n) == n + 1

\* the loop index after the except clause of one item: the loop goes on
AfterFailure(i, n) == i + 1

\* the state dict after lines 285-286
RecordSuccess(st, name, slot) ==
    [uploaded |-> Append(st.uploaded, name), last_slot |-> isoformat(slot)]

\* the two numbers of the final log line
SummaryLine(jobs_, failed_) ==
    [scheduled |-> Len(jobs_) - Len(failed_), nfailed |-> Len(failed_),
     failed |-> failed_]

\* ---------------------------------------------------- complete_upload_form
\* variant: the description is set before the interactivity settings
FormSteps_DescriptionEarly ==
    << "go_to_upload", "remove_cookies_window", "dismiss_feature_popup",
       "set_video", "dismiss_feature_popup_again", "set_sound", "set_cover",
       "remove_split_window", "set_description", "set_interactivity",
       "set_visibility", "set_schedule", "add_product_link", "post_video" >>

\* the calls of complete_upload_form, in the order of lines 368-389
FormSteps ==
    << "go_to_upload", "remove_cookies_window", "dismiss_feature_popup",
       "set_video", "dismiss_feature_popup_again", "set_sound", "set_cover",
       "remove_split_window", "set_interactivity", "set_description",
       "set_visibility", "set_schedule", "add_product_link", "post_video" >>

OptionalSteps == {"set_sound", "set_cover", "add_product_link"}

\* the `if` in front of a call: is the step called for the arguments a
StepCalled(step, a) ==
    CASE step = "set_sound" -> a.sound
      [] step = "set_cover" -> a.cover
      [] step = "remove_split_window" -> ~ a.skip_split_window
      [] step = "set_visibility" -> a.visibility # "everyone"
      [] step = "set_schedule" -> a.schedule # None
      [] step = "add_product_link" -> a.product
      [] OTHER -> TRUE

RECURSIVE StepFrom(_, _)
\* the first step called at position i or later; "return" after the last
StepFrom(i, a) ==
    IF i > Len(FormSteps) THEN "return"
    ELSE IF StepCalled(FormSteps[i], a) THEN FormSteps[i]
    ELSE StepFrom(i + 1, a)

StepIndex(step) == CHOOSE i \in 1..Len(FormSteps) : FormSteps[i] = step

\* the step called after `step` has returned
StepAfter(step, a) == StepFrom(StepIndex(step) + 1, a)

\* the 20 of "for _ in range(20)" in _set_cover
CoverTurns == 20

\* what the attribute read of a counted waiting loop sees in turn k, when the
\* page shows `first.what` ("yes" or "raise") from turn first.at on
ReadAt(first, k) == IF k < first.at THEN "no" ELSE first.what

\* the pages a loop of `limit` turns can meet: the awaited value (or an
\* exception) comes in some turn, also in one the loop never gets to
Reads(limit) == [at : 1..(limit + 2), what : {"yes", "raise"}]

\* variant: the loop makes one turn more than its range
RECURSIVE WaitLoop_OneMore(_, _, _)
WaitLoop_OneMore(k, limit, first) ==
    IF k > limit + 1 THEN [turns |-> k - 1, raised |-> FALSE]
    ELSE IF ReadAt(first, k) = "raise" THEN [turns |-> k, raised |-> TRUE]
    ELSE IF ReadAt(first, k) = "yes" THEN [turns |-> k, raised |-> FALSE]
    ELSE WaitLoop_OneMore(k + 1, limit, first)

\* "for _ in range(limit): if check(): break; time.sleep(...)" from turn k
\* on (_post_video lines 1172-1175, _set_cover lines 1327-1330): the number
\* of reads made and whether one of them raised
RECURSIVE WaitLoop(_, _, _)
WaitLoop(k, limit, first) ==
    IF k > limit THEN [turns |-> k - 1, raised |-> FALSE]
    ELSE IF ReadAt(first, k) = "raise" THEN [turns |-> k, raised |-> TRUE]
    ELSE IF ReadAt(first, k) = "yes" THEN [turns |-> k, raised |-> FALSE]
    ELSE WaitLoop(k + 1, limit, first)

\* whether a loop that made r.turns reads kept within its `limit` turns
Ended(r, limit) == IF r.turns > limit THEN "over" ELSE "within"

\* variant: a failure inside an optional step leaves the step as an exception
OptionalOutcome_Raise(ok) == IF ok THEN "return" ELSE "raise"

\* _set_sound, _set_cover, _add_product_link: the body is one try block whose
\* except clause logs; the step returns whether or not it worked
OptionalOutcome(ok) == "return"

\* _set_video after its for loop has run out of attempts: the function body
\* ends, the call returns
SetVideoExhausted == "return"

\* a value read back from a picker input: kind "value" with its two numbers,
\* kind "empty" (no value attribute) or kind "text" (not numbers)
PickerValue(a, b) == [kind |-> "value", a |-> a, b |-> b]
PickerEmpty == [kind |-> "empty", a |-> 0, b |-> 0]
PickerText == [kind |-> "text", a |-> 0, b |-> 0]

\* __verify_date_picked_is_correct / __verify_time_picked_is_correct: the
\* value is split and converted; if that fails the function returns, else it
\* raises unless both numbers are the expected ones
VerifyPicked(read, a, b) ==
    IF read.kind # "value" THEN "return"
    ELSE IF read.a = a /\ read.b = b THEN "return"
    ELSE "raise"

\* _set_schedule_video, lines 856-945, for what the page does: "return" or
\* "raise"
SetScheduleOutcome(target, pg) ==
    IF ~ pg.tzOK \/ ~ pg.toggleOK \/ ~ pg.pickDateOK THEN "raise"
    ELSE IF VerifyPicked(pg.dateRead, target.month, target.day) = "raise"
         THEN "raise"
    ELSE IF ~ pg.pickTimeOK THEN "raise"
    ELSE VerifyPicked(pg.timeRead, target.hour, target.minute)

\* --------------------------------------------------- _set_schedule_video
\* __date_picker, lines 992-997: which arrow is clicked for the month read
\* from the calendar header and the target month
PageDirection(n_calendar_month, month) ==
    IF n_calendar_month = month THEN "none"
    ELSE IF n_calendar_month < month THEN "arrow_next"
    ELSE "arrow_prev"

\* the calendar after one click of an arrow
Paged(ym, arrow) ==
    IF arrow = "arrow_next"
    THEN IF ym.month = 12 THEN [year |-> ym.year + 1, month |-> 1]
         ELSE [year |-> ym.year, month |-> ym.month + 1]
    ELSE IF arrow = "arrow_prev"
    THEN IF ym.month = 1 THEN [year |-> ym.year - 1, month |-> 12]
         ELSE [year |-> ym.year, month |-> ym.month - 1]
    ELSE ym

\* months counted from January of year 0
MonthOrdinal(ym) == 12 * ym.year + ym.month

\* the first click of the Schedule toggle, lines 869-903: the visible label,
\* else the forced click of the radio input, else nothing
FirstToggle(labelOK, radioOK) ==
    IF labelOK THEN "schedule_label"
    ELSE IF radioOK THEN "schedule_radio"
    ELSE "none"

\* the click after a dismissed popup, lines 926-938: the visible label or
\* nothing
SecondToggle(labelOK) == IF labelOK THEN "schedule_label" ELSE "none"

\* ------------------------------------------------------ _set_description
RECURSIVE SplitOnSpace(_, _, _)
\* str.split(" "): the pieces between single spaces, empty ones included
SplitOnSpace(s, i, cur) ==
    IF i > Len(s) THEN << cur >>
    ELSE IF s[i] = " " THEN << cur >> \o SplitOnSpace(s, i + 1, << >>)
    ELSE SplitOnSpace(s, i + 1, Append(cur, s[i]))

\* lines 442-491: the branch taken for a word; word[0] of an empty word
\* raises IndexError
WordKind(word) ==
    IF word = << >> THEN "error"
    ELSE IF word[1] = "#" THEN "hashtag"
    ELSE IF word[1] = "@" THEN "mention"
    ELSE "plain"

\* line 466: mention_box_user_id.first becomes visible within the wait, or
\* wait_for raises; list is the elements the locator matches, in document
\* order, each [visible, text]
FirstAppears(list) == list # << >> /\ list[1].visible

\* lines 468-482: the index (from 0) of the first visible element whose
\* first word equals the word without its '@', ignoring case; -1 if none
FoundAt(word, list) ==
    LET lower(t) == [k \in 1..Len(t) |-> LowerChar(t[k])]
        target_username == lower(Tail(word))
        hit(k) ==
            /\ list[k].visible
            /\ lower(SplitOnSpace(list[k].text, 1, << >>)[1]) = target_username
        hits == { k \in 1..Len(list) : hit(k) }
    IN  IF hits = {} THEN 0 - 1
        ELSE (CHOOSE k \in hits : \A j \in hits : k <= j) - 1

\* where the highlight of the displayed list stands after downs presses of
\* ArrowDown, as an index of list: only the visible elements are displayed,
\* the first of them is highlighted at the start, and past the last one the
\* highlight wraps or stays, as the widget has it
Landed(list, downs, wraps) ==
    LET shown == SelectSeq([k \in 1..Len(list) |-> k], LAMBDA k : list[k].visible)
        n == Len(shown)
    IN  shown[IF downs + 1 <= n THEN downs + 1
              ELSE IF wraps THEN (downs % n) + 1 ELSE n]

\* the keys sent to the field for a word whose branch runs to its end: box
\* is what the page shows after the word, [shown, list]
KeysFor(word, box) ==
    CASE WordKind(word) = "hashtag" ->
            word \o (IF box.shown THEN << "Enter" >> ELSE << >>)
      [] WordKind(word) = "mention" ->
            IF FirstAppears(box.list) /\ FoundAt(word, box.list) >= 0
            THEN word \o [k \in 1..FoundAt(word, box.list) |-> "ArrowDown"]
                      \o << "Enter" >>
            ELSE word \o << " " >>
      [] OTHER -> word \o << " " >>

\* _clear, lines 500-505: Control+A and Backspace empty the field where
\* Control+A selects everything and leave it alone where it does not
Cleared(field, selectsAll) == IF selectsAll THEN << >> ELSE field

\* variant: fill types after what the field holds
Filled_Appending(field, text) == field \o text

\* locator.fill: the field holds the text and nothing else
Filled(field, text) == text

\* ------------------------------------------------------------------- state
VARIABLES
    zone,        \* the host's time zone
    in_count,    \* next_upload_slots on its own: argument count
    in_last,     \* ... argument last_slot
    in_now,      \* ... the clock reading of line 82
    out_slots,   \* ... the returned list
    spc,         \* ... "call" before the call, "ret" after it
    clock,       \* the host's clock, [t, s, us] in UTC
    dir,         \* names of the video files in the videos directory
    file,        \* the state file uploaded.json
    pc,          \* where main is: "idle", "phase1", "loop", "saving"
    state,       \* main's state dict
    videos,      \* main's list of pending videos
    jobs,        \* the list recognise_all returned: the video of each job
    descs,       \* ... and the description of each job, [failed, text]
    slots,       \* the list next_upload_slots returned
    idx,         \* position of upload_all's loop in zip(jobs, descs, slots)
    failed,      \* upload_all's failed list
    page,        \* the uploader's _page: "none", "raw" or "auth"
    summary,     \* the final log line of the last completed upload_all
    runs,        \* number of runs of main started so far
    calls,       \* history: the upload_video calls of the current run
    recorded,    \* history: what every save recorded, over all runs
    okCount,     \* history: per file, the uploads that really succeeded
    crashed,     \* history: the process was killed at least once
    f_args,      \* complete_upload_form on its own: its arguments
    f_pc,        \* ... the step about to run, "polling", or "return"/"raise"
    f_trace,     \* ... the steps called so far, in order
    f_timeouts,  \* ... _set_video: attempts that timed out
    f_media,     \* ... the processing confirmation was seen
    f_desc,      \* ... _set_description: "none", "typed" or "filled"
    f_optFailed, \* ... the optional steps that failed
    f_sched,     \* ... what _set_schedule_video did and read back
    f_post,      \* ... _post_video: clicks, polls, popups, confirmation
    f_waits,     \* ... how the two counted waiting loops ended
    f_abortedAt, \* ... the step that raised, or "none"
    d_in,        \* build_description on its own: the recognition result
    d_out,       \* ... the returned description
    d_pc,        \* ... "call" before the call, "ret" after it
    k_target,    \* _set_schedule_video on its own: year, month, day, hour, minute
    k_pc,        \* ... the part of the function that runs next
    k_clicks,    \* ... the controls clicked so far, in order
    k_shown,     \* ... the month the calendar displays
    k_date,      \* ... the date the widget holds, or None
    k_time,      \* ... the time the widget holds, or None
    k_dismissed, \* ... low_quality_dismissed
    e_caption,   \* _set_description on its own: the description (Text or Missing)
    e_pc,        \* ... "begin", "typing", "fallback", "return" or "raise"
    e_pos,       \* ... the index of the next word of the for loop
    e_field,     \* ... what the description field holds
    e_errored,   \* ... the except clause of line 493 was entered
    e_fills,     \* ... calls of fill
    e_clears,    \* ... calls of _clear
    e_picks,     \* history: per Enter on a suggestion, the list index matched and the one taken
    u_page,      \* a TikTokUploader on its own: _page, "none", "raw" or "auth"
    u_starts,    \* ... browsers started so far
    u_ctx,       \* ... the with block: "out", "in" or "left"
    u_last,      \* ... history: the last call made on the uploader
    u_batch,     \* ... the list of videos the caller hands to upload_videos
    m_in,        \* _get_valid_schedule_minute on its own: the schedule given
    m_out        \* ... the results of applying it once, twice, ...

cvars == << clock, dir, file, pc, state, videos, jobs, descs, slots, idx, failed,
            page, summary, runs, calls, recorded, okCount, crashed >>
svars == << in_count, in_last, in_now, out_slots, spc >>
fvars == << f_args, f_pc, f_trace, f_timeouts, f_media, f_desc, f_optFailed,
            f_sched, f_post, f_waits, f_abortedAt >>
dvars == << d_in, d_out, d_pc >>
kvars == << k_target, k_pc, k_clicks, k_shown, k_date, k_time, k_dismissed >>
evars == << e_caption, e_pc, e_pos, e_field, e_errored, e_fills, e_clears,
           e_picks >>
uvars == << u_page, u_starts, u_ctx, u_last, u_batch >>
mvars == << m_in, m_out >>
xvars == << dvars, kvars, evars, uvars, mvars >>
vars == << zone, in_count, in_last, in_now, out_slots, spc, clock, dir, file,
           pc, state, videos, jobs, descs, slots, idx, failed, page, summary, runs,
           calls, recorded, okCount, crashed, f_args, f_pc, f_trace,
           f_timeouts, f_media, f_desc, f_optFailed, f_sched, f_post,
           f_waits, f_abortedAt, d_in, d_out, d_pc, k_target, k_pc, k_clicks,
           k_shown, k_date, k_time, k_dismissed, e_caption, e_pc, e_pos,
           e_field, e_errored, e_fills, e_clears, e_picks, u_page, u_starts,
           u_ctx, u_last, u_batch, m_in, m_out >>

Files == 1..MaxFiles

NoSchedule == [done |-> FALSE, date |-> PickerEmpty, time |-> PickerEmpty]
NoPost == [clicks |-> 0, polls |-> 0, seen |-> 0, closed |-> 0,
           reclicked |-> 0, lost |-> 0, confirmed |-> FALSE]

\* neither the post button's loop nor the cover's loop has run
NoWaits == [enable |-> "none", cover |-> "none"]

\* complete_upload_form before it is called with the arguments a
FormAtStart(a) ==
    /\ f_args = a
    /\ f_pc = StepFrom(1, a)
    /\ f_trace = << >>
    /\ f_timeouts = 0
    /\ f_media = FALSE
    /\ f_desc = "none"
    /\ f_optFailed = {}
    /\ f_sched = NoSchedule
    /\ f_post = NoPost
    /\ f_waits = NoWaits
    /\ f_abortedAt = "none"

\* the arguments upload_all's call of upload_video leads to
DefaultFormArgs ==
    [sound |-> FALSE, cover |-> FALSE, skip_split_window |-> FALSE,
     visibility |-> "everyone", schedule |-> None, product |-> FALSE,
     num_retries |-> 1]

\* build_description when it is not under study
DescAtRest ==
    /\ d_in = None
    /\ d_out = << >>
    /\ d_pc = "ret"

\* _set_schedule_video when it is not under study
SchedAtRest ==
    /\ k_target = None
    /\ k_pc = "return"
    /\ k_clicks = << >>
    /\ k_shown = None
    /\ k_date = None
    /\ k_time = None
    /\ k_dismissed = FALSE

\* _set_description when it is not under study
EntryAtRest ==
    /\ e_caption = Missing
    /\ e_pc = "return"
    /\ e_pos = 1
    /\ e_field = << >>
    /\ e_errored = FALSE
    /\ e_fills = 0
    /\ e_clears = 0
    /\ e_picks = << >>

\* the shape of u_last; before is the stored page when the call was made
NoCall ==
    [op |-> "none", why |-> "none",
     attempted |-> 0, failed |-> << >>, formed |-> << >>, used |-> "none",
     started |-> FALSE, before |-> "none"]

\* __init__, lines 49-66: no page, no browser
UploaderAtRest ==
    /\ u_page = "none"
    /\ u_starts = 0
    /\ u_ctx = "out"
    /\ u_last = NoCall
    /\ u_batch = << >>

MinuteAtRest ==
    /\ m_in = None
    /\ m_out = << >>

\* the coordinator before anything has run
CoordinatorAtRest ==
    /\ dir = {}
    /\ file = FileMissing
    /\ pc = "idle"
    /\ state = DefaultState
    /\ videos = << >>
    /\ jobs = << >>
    /\ descs = << >>
    /\ slots = << >>
    /\ idx = 1
    /\ failed = << >>
    /\ page = "none"
    /\ summary = None
    /\ runs = 0
    /\ calls = << >>
    /\ recorded = << >>
    /\ okCount = [f \in Files |-> 0]
    /\ crashed = FALSE

\* ---------------------------------------------- next_upload_slots on its own
NowMinutes == {0, 35, 36, 50}
SubMinute == { <<0, 0>>, <<0, 1>>, <<1, 0>> }

NowInputs ==
    { [t |-> d * 1440 + h * 60 + m, s |-> su[1], us |-> su[2]] :
        d \in 1..MaxDay, h \in 0..23, m \in NowMinutes, su \in SubMinute }

\* a stored slot is a whole hour of the zone it was made in; read back in a
\* zone half an hour off it falls on a half hour
LastSlotMinutes == {0, 30}

LastSlotInstants ==
    { d * 1440 + h * 60 + m : d \in 1..MaxDay, h \in 0..23, m \in LastSlotMinutes }

InitSlots ==
    /\ zone \in Zones
    /\ in_count \in 1..MaxCount
    /\ \E c \in NowInputs : in_now = LocalNow(zone, c)
    /\ \/ in_last = None
       \/ \E t \in LastSlotInstants :
            in_last = [t |-> t, s |-> 0, us |-> 0, off |-> LocalOffset(zone, t)]
    /\ out_slots = << >>
    /\ spc = "call"
    /\ clock = [t |-> in_now.t, s |-> in_now.s, us |-> in_now.us]
    /\ CoordinatorAtRest
    /\ FormAtStart(DefaultFormArgs)
    /\ DescAtRest
    /\ SchedAtRest
    /\ EntryAtRest
    /\ UploaderAtRest
    /\ MinuteAtRest

Allocate ==
    /\ spc = "call"
    /\ out_slots' = next_upload_slots(in_count, in_last, in_now)
    /\ spc' = "ret"
    /\ UNCHANGED << zone, in_count, in_last, in_now >>
    /\ UNCHANGED cvars
    /\ UNCHANGED fvars
    /\ UNCHANGED xvars

NextSlots == Allocate

SpecSlots == InitSlots /\ [][NextSlots]_vars

\* --------------------------------------------------------- the coordinator
ClockHours == {1, 20}
ClockMinutes == {50}

ClockReadings ==
    { [t |-> d * 1440 + h * 60 + m, s |-> 0, us |-> 0] :
        d \in 1..MaxDay, h \in ClockHours, m \in ClockMinutes }

Init ==
    /\ zone \in Zones
    /\ clock \in ClockReadings
    /\ in_count = 1
    /\ in_last = None
    /\ in_now = LocalNow(zone, clock)
    /\ out_slots = << >>
    /\ spc = "ret"
    /\ CoordinatorAtRest
    /\ FormAtStart(DefaultFormArgs)
    /\ DescAtRest
    /\ SchedAtRest
    /\ EntryAtRest
    /\ UploaderAtRest
    /\ MinuteAtRest

\* time passes
Tick ==
    /\ \E c \in ClockReadings : c.t > clock.t /\ clock' = c
    /\ UNCHANGED << zone, dir, file, pc, state, videos, jobs, descs, slots, idx,
                    failed, page, summary, runs, calls, recorded, okCount,
                    crashed >>
    /\ UNCHANGED svars
    /\ UNCHANGED fvars
    /\ UNCHANGED xvars

\* a video file is put into the directory (main lists it only when it starts)
AddFile ==
    /\ pc = "idle"
    /\ \E f \in Files \ dir : dir' = dir \cup {f}
    /\ UNCHANGED << zone, clock, file, pc, state, videos, jobs, descs, slots, idx,
                    failed, page, summary, runs, calls, recorded, okCount,
                    crashed >>
    /\ UNCHANGED svars
    /\ UNCHANGED fvars
    /\ UNCHANGED xvars

\* main, lines 305-311: cookies.txt is missing
MainNoCookies ==
    /\ pc = "idle"
    /\ runs < MaxRuns
    /\ runs' = runs + 1
    /\ UNCHANGED << zone, clock, dir, file, pc, state, videos, jobs, descs, slots,
                    idx, failed, page, summary, calls, recorded, okCount,
                    crashed >>
    /\ UNCHANGED svars
    /\ UNCHANGED fvars
    /\ UNCHANGED xvars

\* main, lines 313-334: nothing new in the directory
MainNoVideos ==
    /\ pc = "idle"
    /\ runs < MaxRuns
    /\ LET st == load_state(file)
       IN  /\ FilterPending(Sorted(dir), Range(st.uploaded)) = << >>
           /\ state' = st
           /\ videos' = << >>
    /\ runs' = runs + 1
    /\ UNCHANGED << zone, clock, dir, file, pc, jobs, descs, slots, idx, failed,
                    page, summary, calls, recorded, okCount, crashed >>
    /\ UNCHANGED svars
    /\ UNCHANGED fvars
    /\ UNCHANGED xvars

\* main, lines 313-343: load the state, filter, allocate the slots
StartRun ==
    /\ pc = "idle"
    /\ runs < MaxRuns
    /\ LET st == load_state(file)
           vs == FilterPending(Sorted(dir), Range(st.uploaded))
       IN  /\ vs # << >>
           /\ state' = st
           /\ videos' = vs
           /\ slots' = next_upload_slots(Len(vs), LoadedLastSlot(zone, st),
                                         LocalNow(zone, clock))
    /\ jobs' = << >>
    /\ descs' = << >>
    /\ idx' = 1
    /\ failed' = << >>
    /\ calls' = << >>
    /\ summary' = None
    /\ pc' = "phase1"
    /\ runs' = runs + 1
    /\ UNCHANGED << zone, clock, dir, file, page, recorded, okCount, crashed >>
    /\ UNCHANGED svars
    /\ UNCHANGED fvars
    /\ UNCHANGED xvars

\* variant: upload_all is entered as soon as one job exists
RecogniseDone_Early(jobs_, videos_) == Len(jobs_) >= 1

\* recognise_all's for loop has gone through every video (line 244, 257)
RecogniseDone(jobs_, videos_) == Len(jobs_) = Len(videos_)

\* what the recognition service answers in the coordinator's runs
Answers == { Track(Text(<< "a" >>), Text(<< "b" >>)) }

\* recognise_all, lines 244-256: one video is recognised and its job appended
RecogniseItem ==
    /\ pc = "phase1"
    /\ Len(jobs) < Len(videos)
    /\ jobs' = Append(jobs, videos[Len(jobs) + 1])
    /\ \E extractOK, shazamOK \in BOOLEAN : \E answer \in Answers :
          LET result == recognize_song(extractOK, shazamOK, answer)
          IN  descs' = Append(descs, [failed |-> ~ extractOK \/ ~ shazamOK,
                                      text |-> build_description(result)])
    /\ UNCHANGED << zone, clock, dir, file, pc, state, videos, slots, idx,
                    failed, page, summary, runs, calls, recorded, okCount,
                    crashed >>
    /\ UNCHANGED svars
    /\ UNCHANGED fvars
    /\ UNCHANGED xvars

\* main, lines 346-349, and upload_all, lines 266-267: recognise_all returns
\* and upload_all starts
RecogniseAll ==
    /\ pc = "phase1"
    /\ RecogniseDone(jobs, videos)
    /\ page' = "none"
    /\ failed' = << >>
    /\ idx' = 1
    /\ pc' = "loop"
    /\ UNCHANGED << zone, clock, dir, file, state, videos, jobs, descs, slots,
                    summary, runs, calls, recorded, okCount, crashed >>
    /\ UNCHANGED svars
    /\ UNCHANGED fvars
    /\ UNCHANGED xvars

ZipLen == IF Len(jobs) <= Len(slots) THEN Len(jobs) ELSE Len(slots)

\* upload_all, lines 269-284 and 288-290: one call of upload_video
UploadCall ==
    /\ pc = "loop"
    /\ idx <= ZipLen
    /\ \E pathOK, browserOK, authOK, formOK \in BOOLEAN :
         LET naive == StripTz(slots[idx])
             r == upload_video(page, naive, clock, zone,
                               pathOK, browserOK, authOK, formOK)
         IN  /\ page' = r.page
             /\ calls' = Append(calls,
                    [name |-> jobs[idx], naive |-> naive, result |-> r.result,
                     done |-> jobs[idx] \in Range(load_state(file).uploaded),
                     description |-> descs[idx].text,
                     recFailed |-> descs[idx].failed,
                     pathOK |-> pathOK,
                     schedOK |-> check_valid_schedule(
                        get_valid_schedule_minute(NaiveToUTC(zone, naive)),
                        clock),
                     started |-> page = "none" /\ r.page # "none",
                     again |-> okCount[jobs[idx]] > 0,
                     saved |-> \E k \in 1..Len(recorded) :
                                  recorded[k].name = jobs[idx],
                     after |-> \/ recorded = << >>
                               \/ slots[idx].t >=
                                    recorded[Len(recorded)].t + 60])
             /\ okCount' = IF r.result = "true"
                           THEN [okCount EXCEPT ![jobs[idx]] = @ + 1]
                           ELSE okCount
             /\ IF r.result = "raise"
                THEN /\ failed' = Append(failed, jobs[idx])
                     /\ idx' = AfterFailure(idx, ZipLen)
                     /\ pc' = "loop"
                ELSE /\ pc' = "saving"
                     /\ UNCHANGED << failed, idx >>
    /\ UNCHANGED << zone, clock, dir, file, state, videos, jobs, descs, slots,
                    summary, runs, recorded, crashed >>
    /\ UNCHANGED svars
    /\ UNCHANGED fvars
    /\ UNCHANGED xvars

\* upload_all, lines 285-287: record the item and write the state file
SaveItem ==
    /\ pc = "saving"
    /\ LET st == RecordSuccess(state, jobs[idx], slots[idx])
       IN  /\ state' = st
           /\ file' = save_state(st)
    /\ recorded' = Append(recorded,
           [name |-> jobs[idx], naive |-> StripTz(slots[idx]),
            t |-> slots[idx].t, result |-> calls[Len(calls)].result])
    /\ idx' = idx + 1
    /\ pc' = "loop"
    /\ UNCHANGED << zone, clock, dir, videos, jobs, descs, slots, failed, page,
                    summary, runs, calls, okCount, crashed >>
    /\ UNCHANGED svars
    /\ UNCHANGED fvars
    /\ UNCHANGED xvars

\* upload_all, lines 292-297: the final summary
Finish ==
    /\ pc = "loop"
    /\ idx > ZipLen
    /\ summary' = SummaryLine(jobs, failed)
    /\ pc' = "idle"
    /\ UNCHANGED << zone, clock, dir, file, state, videos, jobs, descs, slots, idx,
                    failed, page, runs, calls, recorded, okCount, crashed >>
    /\ UNCHANGED svars
    /\ UNCHANGED fvars
    /\ UNCHANGED xvars

Next ==
    \/ Tick
    \/ AddFile
    \/ MainNoCookies
    \/ MainNoVideos
    \/ StartRun
    \/ RecogniseItem
    \/ RecogniseAll
    \/ UploadCall
    \/ SaveItem
    \/ Finish

Spec == Init /\ [][Next]_vars

\* ------------------------------------------------------------ process kills
\* the process is killed during a run, outside of write_text
Crash ==
    /\ pc \in {"phase1", "loop", "saving"}
    /\ pc' = "idle"
    /\ crashed' = TRUE
    /\ UNCHANGED << zone, clock, dir, file, state, videos, jobs, descs, slots, idx,
                    failed, page, summary, runs, calls, recorded, okCount >>
    /\ UNCHANGED svars
    /\ UNCHANGED fvars
    /\ UNCHANGED xvars

\* the process is killed inside write_text, after open(..., "w") has
\* truncated the file and before the new text is flushed
CrashDuringSave ==
    /\ pc = "saving"
    /\ file' = FileCorrupt
    /\ pc' = "idle"
    /\ crashed' = TRUE
    /\ UNCHANGED << zone, clock, dir, state, videos, jobs, descs, slots, idx,
                    failed, page, summary, runs, calls, recorded, okCount >>
    /\ UNCHANGED svars
    /\ UNCHANGED fvars
    /\ UNCHANGED xvars

NextCrash ==
    \/ Tick
    \/ AddFile
    \/ MainNoCookies
    \/ MainNoVideos
    \/ StartRun
    \/ RecogniseItem
    \/ RecogniseAll
    \/ UploadCall
    \/ SaveItem
    \/ Finish
    \/ Crash
    \/ CrashDuringSave

SpecCrash == Init /\ [][NextCrash]_vars

\* -------------------------------------- complete_upload_form on its own
ScheduleTargets ==
    { [month |-> 12, day |-> 31, hour |-> 22, minute |-> 0],
      [month |-> 1, day |-> 1, hour |-> 9, minute |-> 5] }

ReadDates ==
    { PickerValue(x.month, x.day) : x \in ScheduleTargets }
       \cup {PickerEmpty, PickerText}

ReadTimes ==
    { PickerValue(x.hour, x.minute) : x \in ScheduleTargets }
       \cup {PickerEmpty, PickerText}

FormArgs ==
    [sound : BOOLEAN, cover : BOOLEAN, skip_split_window : BOOLEAN,
     visibility : {"everyone", "friends"},
     schedule : {None} \cup ScheduleTargets,
     product : BOOLEAN, num_retries : 1..MaxRetries]

InitForm ==
    /\ zone = ZoneUTC
    /\ clock = [t |-> 1440, s |-> 0, us |-> 0]
    /\ in_count = 1
    /\ in_last = None
    /\ in_now = LocalNow(zone, clock)
    /\ out_slots = << >>
    /\ spc = "ret"
    /\ CoordinatorAtRest
    /\ \E a \in FormArgs : FormAtStart(a)
    /\ DescAtRest
    /\ SchedAtRest
    /\ EntryAtRest
    /\ UploaderAtRest
    /\ MinuteAtRest

\* the step returns: the next call of complete_upload_form is reached
Proceed(step) ==
    /\ f_pc' = StepAfter(step, f_args)
    /\ f_trace' = Append(f_trace, step)
    /\ f_abortedAt' = f_abortedAt

\* the step raises: the exception leaves complete_upload_form
Abort(step) ==
    /\ f_pc' = "raise"
    /\ f_trace' = Append(f_trace, step)
    /\ f_abortedAt' = step

FormRest ==
    UNCHANGED << zone, cvars, svars, xvars, f_args, f_waits >>

\* _go_to_upload, lines 392-407
GoToUpload ==
    /\ f_pc = "go_to_upload"
    /\ \E ok \in BOOLEAN : IF ok THEN Proceed(f_pc) ELSE Abort(f_pc)
    /\ UNCHANGED << f_timeouts, f_media, f_desc, f_optFailed, f_sched, f_post >>
    /\ FormRest

\* _remove_cookies_window, lines 746-765: the except clause runs a script,
\* which may raise in its turn
RemoveCookiesWindow ==
    /\ f_pc = "remove_cookies_window"
    /\ \E ok, jsOK \in BOOLEAN :
          IF ok \/ jsOK THEN Proceed(f_pc) ELSE Abort(f_pc)
    /\ UNCHANGED << f_timeouts, f_media, f_desc, f_optFailed, f_sched, f_post >>
    /\ FormRest

\* _dismiss_feature_popup, lines 534-550 (called at lines 370 and 373)
DismissFeaturePopup ==
    /\ f_pc \in {"dismiss_feature_popup", "dismiss_feature_popup_again"}
    /\ Proceed(f_pc)
    /\ UNCHANGED << f_timeouts, f_media, f_desc, f_optFailed, f_sched, f_post >>
    /\ FormRest

\* _set_video, lines 514-531: one turn of the for loop
SetVideoAttempt ==
    /\ f_pc = "set_video"
    /\ f_timeouts < f_args.num_retries
    /\ \E o \in {"confirmed", "timeout", "error"} :
          CASE o = "confirmed" ->
                  /\ f_media' = TRUE
                  /\ Proceed(f_pc)
                  /\ UNCHANGED f_timeouts
            [] o = "timeout" ->
                  /\ f_timeouts' = f_timeouts + 1
                  /\ UNCHANGED << f_media, f_pc, f_trace, f_abortedAt >>
            [] o = "error" ->
                  /\ Abort(f_pc)
                  /\ UNCHANGED << f_media, f_timeouts >>
    /\ UNCHANGED << f_desc, f_optFailed, f_sched, f_post >>
    /\ FormRest

\* _set_video: the for loop has used up its num_retries turns
SetVideoRanOut ==
    /\ f_pc = "set_video"
    /\ f_timeouts = f_args.num_retries
    /\ IF SetVideoExhausted = "return" THEN Proceed(f_pc) ELSE Abort(f_pc)
    /\ UNCHANGED << f_timeouts, f_media, f_desc, f_optFailed, f_sched, f_post >>
    /\ FormRest

OptionalStep(step) ==
    /\ f_pc = step
    /\ \E ok \in BOOLEAN :
          /\ f_optFailed' = IF ok THEN f_optFailed ELSE f_optFailed \cup {step}
          /\ IF OptionalOutcome(ok) = "return" THEN Proceed(step) ELSE Abort(step)
    /\ UNCHANGED << f_timeouts, f_media, f_desc, f_sched, f_post >>
    /\ FormRest

\* _set_sound, lines 553-743
SetSound == OptionalStep("set_sound")

\* _set_cover, lines 1292-1341: the steps before the loop, which raise (no
\* turn of the loop is made) or not, then the loop of lines 1327-1330; the
\* except clause of line 1332 catches what either raises
SetCover ==
    /\ f_pc = "set_cover"
    /\ \E ok \in BOOLEAN, first \in Reads(CoverTurns) :
          LET r == IF ok THEN WaitLoop(1, CoverTurns, first)
                   ELSE [turns |-> 0, raised |-> TRUE]
              worked == ~ r.raised
          IN  /\ f_optFailed' = IF worked THEN f_optFailed
                                 ELSE f_optFailed \cup {"set_cover"}
              /\ f_waits' = [f_waits EXCEPT !.cover = Ended(r, CoverTurns)]
              /\ IF OptionalOutcome(worked) = "return"
                 THEN Proceed("set_cover") ELSE Abort("set_cover")
    /\ UNCHANGED << f_timeouts, f_media, f_desc, f_sched, f_post >>
    /\ UNCHANGED << zone, cvars, svars, xvars, f_args >>

\* _add_product_link, lines 1242-1289
AddProductLink == OptionalStep("add_product_link")

\* _remove_split_window, lines 768-780: only a timeout is caught
RemoveSplitWindow ==
    /\ f_pc = "remove_split_window"
    /\ \E o \in {"ok", "timeout", "error"} :
          IF o = "error" THEN Abort(f_pc) ELSE Proceed(f_pc)
    /\ UNCHANGED << f_timeouts, f_media, f_desc, f_optFailed, f_sched, f_post >>
    /\ FormRest

\* _set_interactivity, lines 783-811, and _set_visibility, lines 814-847:
\* every exception is caught and logged
SetInteractivity ==
    /\ f_pc = "set_interactivity"
    /\ Proceed(f_pc)
    /\ UNCHANGED << f_timeouts, f_media, f_desc, f_optFailed, f_sched, f_post >>
    /\ FormRest

SetVisibility ==
    /\ f_pc = "set_visibility"
    /\ Proceed(f_pc)
    /\ UNCHANGED << f_timeouts, f_media, f_desc, f_optFailed, f_sched, f_post >>
    /\ FormRest

\* _set_description, lines 410-497: typed word by word; on an exception the
\* field is cleared and filled in one go, which may raise in its turn
SetDescription ==
    /\ f_pc = "set_description"
    /\ \E o \in {"typed", "filled", "error"} :
          IF o = "error"
          THEN Abort(f_pc) /\ UNCHANGED f_desc
          ELSE Proceed(f_pc) /\ f_desc' = o
    /\ UNCHANGED << f_timeouts, f_media, f_optFailed, f_sched, f_post >>
    /\ FormRest

\* _set_schedule_video, lines 850-945
SetSchedule ==
    /\ f_pc = "set_schedule"
    /\ \E tzOK, toggleOK, pickDateOK, pickTimeOK \in BOOLEAN :
       \E dateRead \in ReadDates, timeRead \in ReadTimes :
          IF SetScheduleOutcome(f_args.schedule,
                [tzOK |-> tzOK, toggleOK |-> toggleOK,
                 pickDateOK |-> pickDateOK, dateRead |-> dateRead,
                 pickTimeOK |-> pickTimeOK, timeRead |-> timeRead]) = "return"
          THEN /\ Proceed(f_pc)
               /\ f_sched' = [done |-> TRUE, date |-> dateRead, time |-> timeRead]
          ELSE /\ Abort(f_pc)
               /\ UNCHANGED f_sched
    /\ UNCHANGED << f_timeouts, f_media, f_desc, f_optFailed, f_post >>
    /\ FormRest

\* _post_video, lines 1166-1189: the loop that waits for the button to be
\* enabled, int(config.uploading_wait / 2) turns at most; then the button is
\* clicked, by the locator or else by the script of the except clause, which
\* also runs when a read of the loop raised
PostClick ==
    /\ f_pc = "post_video"
    /\ \E uploading_wait \in 0..MaxWait :
       \E first \in Reads(uploading_wait \div 2), clickOK, jsOK \in BOOLEAN :
          LET r == WaitLoop(1, uploading_wait \div 2, first)
          IN  /\ f_waits' = [f_waits EXCEPT
                                !.enable = Ended(r, uploading_wait \div 2)]
              /\ IF (~ r.raised /\ clickOK) \/ jsOK
                 THEN /\ f_pc' = "polling"
                      /\ f_trace' = Append(f_trace, "post_video")
                      /\ f_post' = [f_post EXCEPT !.clicks = @ + 1]
                      /\ UNCHANGED f_abortedAt
                 ELSE /\ Abort("post_video")
                      /\ UNCHANGED f_post
    /\ UNCHANGED << f_timeouts, f_media, f_desc, f_optFailed, f_sched >>
    /\ UNCHANGED << zone, cvars, svars, xvars, f_args >>

\* what one turn of the polling loop does to the counters when no
\* confirmation is visible (lines 1213-1235)
PollPopup(p, popupVisible, closeOK, postOK, jsOK) ==
    LET p1 == [p EXCEPT !.polls = @ + 1]
    IN  IF ~ popupVisible THEN p1
        ELSE IF ~ closeOK THEN [p1 EXCEPT !.seen = @ + 1]
        ELSE IF postOK \/ jsOK
             THEN [p1 EXCEPT !.seen = @ + 1, !.closed = @ + 1,
                             !.reclicked = @ + 1, !.clicks = @ + 1]
             ELSE [p1 EXCEPT !.seen = @ + 1, !.closed = @ + 1, !.lost = @ + 1]

\* _post_video, lines 1204-1235: one turn of the while loop
PostPoll ==
    /\ f_pc = "polling"
    /\ f_post.polls < MaxPolls
    /\ \E confirmVisible, popupVisible, closeOK, postOK, jsOK \in BOOLEAN :
          IF confirmVisible
          THEN /\ f_post' = [f_post EXCEPT !.confirmed = TRUE]
               /\ f_pc' = "return"
          ELSE /\ f_post' = PollPopup(f_post, popupVisible, closeOK, postOK, jsOK)
               /\ f_pc' = "polling"
    /\ UNCHANGED << f_trace, f_abortedAt, f_timeouts, f_media, f_desc,
                    f_optFailed, f_sched >>
    /\ FormRest

\* variant: the last check is forgotten, the function just ends
PostFinalOutcome_Lenient(attached) == "return"

\* line 1238: wait_for(state="attached") raises when nothing gets attached
PostFinalOutcome(attached) == IF attached THEN "return" ELSE "raise"

\* _post_video, lines 1237-1239: the deadline has passed, after one turn of
\* the loop or after several
PostFinal ==
    /\ f_pc = "polling"
    /\ f_post.polls >= 1
    /\ \E attached \in BOOLEAN :
          /\ f_post' = [f_post EXCEPT !.confirmed = attached]
          /\ f_pc' = PostFinalOutcome(attached)
          /\ f_abortedAt' = IF PostFinalOutcome(attached) = "raise"
                            THEN "post_video" ELSE f_abortedAt
    /\ UNCHANGED << f_trace, f_timeouts, f_media, f_desc, f_optFailed, f_sched >>
    /\ FormRest

NextForm ==
    \/ GoToUpload
    \/ RemoveCookiesWindow
    \/ DismissFeaturePopup
    \/ SetVideoAttempt
    \/ SetVideoRanOut
    \/ SetSound
    \/ SetCover
    \/ RemoveSplitWindow
    \/ SetInteractivity
    \/ SetDescription
    \/ SetVisibility
    \/ SetSchedule
    \/ AddProductLink
    \/ PostClick
    \/ PostPoll
    \/ PostFinal

SpecForm == InitForm /\ [][NextForm]_vars

\* complete_upload_form is one synchronous call: once called, it keeps
\* running, each step following the one before
SpecFormFair == SpecForm /\ WF_vars(NextForm)

\* ----------------------------------------- build_description on its own
TextChars == {"a", "B", " ", "[", "]", "#", "-"}
NameChars == {"a", "B", " ", "&", ",", "("}

\* the strings over chars of at most n characters
TextsUpTo(chars, n) == UNION { [1..k -> chars] : k \in 0..n }

LoverOfficialVideo ==
    << "L", "o", "v", "e", "r", " ", "[", "O", "f", "f", "i", "c", "i", "a",
       "l", " ", "V", "i", "d", "e", "o", "]" >>

SampleTitles ==
    { LoverOfficialVideo, << "a" >>, << "[", "a", "]" >>, << " " >>, << >> }

SampleArtists ==
    { << "A", " ", "&", " ", "B" >>,
      << "a", " ", "f", "e", "a", "t", ".", " ", "B" >>,
      << "a", " ", "F", "T", ".", "b" >>,
      << "a" >>, << " " >>, << >> }

Entries(texts) == {Missing} \cup { Text(t) : t \in texts }

DescInputs(longest) ==
    {None, NoTrack}
       \cup { Track(t, a) : t \in Entries(TextsUpTo(TextChars, longest)),
                            a \in Entries(SampleArtists) }
       \cup { Track(t, a) : t \in Entries(SampleTitles),
                            a \in Entries(TextsUpTo(NameChars, longest)) }
       \cup { Track(t, a) : t \in Entries(SampleTitles),
                            a \in Entries(SampleArtists) }

CoordinatorQuiet ==
    /\ zone = ZoneUTC
    /\ clock = [t |-> 1440, s |-> 0, us |-> 0]
    /\ in_count = 1
    /\ in_last = None
    /\ in_now = LocalNow(zone, clock)
    /\ out_slots = << >>
    /\ spc = "ret"
    /\ CoordinatorAtRest

InitDesc ==
    /\ CoordinatorQuiet
    /\ FormAtStart(DefaultFormArgs)
    /\ d_in \in DescInputs(MaxText)
    /\ d_out = << >>
    /\ d_pc = "call"
    /\ SchedAtRest
    /\ EntryAtRest
    /\ UploaderAtRest
    /\ MinuteAtRest

\* build_description is called with the result d_in
Compile ==
    /\ d_pc = "call"
    /\ d_out' = build_description(d_in)
    /\ d_pc' = "ret"
    /\ UNCHANGED << zone, cvars, svars, fvars, kvars, evars, uvars, mvars, d_in >>

NextDesc == Compile

SpecDesc == InitDesc /\ [][NextDesc]_vars

\* --------------------------------------- _set_schedule_video on its own
Months == { [year |-> y, month |-> m] : y \in 0..1, m \in 1..12 }

KTargets ==
    { [year |-> 0, month |-> 12, day |-> 31, hour |-> 22, minute |-> 0],
      [year |-> 1, month |-> 1, day |-> 1, hour |-> 9, minute |-> 5] }

TargetMonth(t) == [year |-> t.year, month |-> t.month]

\* the months the calendar may display when it opens
ShownFor(t) ==
    { ym \in Months :
         /\ MonthOrdinal(ym) - MonthOrdinal(TargetMonth(t)) <= MaxDelta
         /\ MonthOrdinal(TargetMonth(t)) - MonthOrdinal(ym) <= MaxDelta }

InitSchedule ==
    /\ CoordinatorQuiet
    /\ FormAtStart(DefaultFormArgs)
    /\ DescAtRest
    /\ EntryAtRest
    /\ UploaderAtRest
    /\ MinuteAtRest
    /\ k_target \in KTargets
    /\ k_pc = "timezone"
    /\ k_clicks = << >>
    /\ k_shown \in ShownFor(k_target)
    /\ k_date = None
    /\ k_time = None
    /\ k_dismissed = FALSE

SchedRest ==
    UNCHANGED << zone, cvars, svars, fvars, dvars, evars, uvars, mvars, k_target >>

\* lines 856-864: the browser's time zone is asked for and the target read
ReadTimezone ==
    /\ k_pc = "timezone"
    /\ \E ok \in BOOLEAN : k_pc' = IF ok THEN "toggle" ELSE "raise"
    /\ UNCHANGED << k_clicks, k_shown, k_date, k_time, k_dismissed >>
    /\ SchedRest

\* lines 869-905: the Schedule toggle is clicked, or the function gives up
ClickToggle ==
    /\ k_pc = "toggle"
    /\ \E labelOK, radioOK \in BOOLEAN :
          LET c == FirstToggle(labelOK, radioOK)
          IN  IF c = "none"
              THEN k_pc' = "raise" /\ UNCHANGED k_clicks
              ELSE k_pc' = "popup" /\ k_clicks' = Append(k_clicks, c)
    /\ UNCHANGED << k_shown, k_date, k_time, k_dismissed >>
    /\ SchedRest

\* lines 909-923: a warning popup, if one is visible, is closed by its X
DismissPopup ==
    /\ k_pc = "popup"
    /\ \E visible, closeOK \in BOOLEAN :
          IF visible /\ closeOK
          THEN /\ k_clicks' = Append(k_clicks, "close")
               /\ k_dismissed' = TRUE
               /\ k_pc' = "retoggle"
          ELSE /\ UNCHANGED << k_clicks, k_dismissed >>
               /\ k_pc' = "date_open"
    /\ UNCHANGED << k_shown, k_date, k_time >>
    /\ SchedRest

\* lines 926-938: after a dismissal the Schedule label is looked for again
ReclickToggle ==
    /\ k_pc = "retoggle"
    /\ \E labelOK \in BOOLEAN :
          LET c == SecondToggle(labelOK)
          IN  k_clicks' = IF c = "none" THEN k_clicks ELSE Append(k_clicks, c)
    /\ k_pc' = "date_open"
    /\ UNCHANGED << k_shown, k_date, k_time, k_dismissed >>
    /\ SchedRest

\* __date_picker, lines 952-974: the date input is clicked and the calendar
\* waited for
OpenCalendar ==
    /\ k_pc = "date_open"
    /\ \E inputOK, calendarOK \in BOOLEAN :
          IF ~ inputOK
          THEN k_pc' = "raise" /\ UNCHANGED k_clicks
          ELSE /\ k_clicks' = Append(k_clicks, "date_input")
               /\ k_pc' = IF calendarOK THEN "date_page" ELSE "raise"
    /\ UNCHANGED << k_shown, k_date, k_time, k_dismissed >>
    /\ SchedRest

\* __date_picker, lines 977-998: the header is read (the target month is
\* assumed when it cannot be) and one arrow is clicked if the months differ
PageCalendar ==
    /\ k_pc = "date_page"
    /\ \E headerOK, arrowOK \in BOOLEAN :
          LET n_calendar_month == IF headerOK THEN k_shown.month
                                  ELSE k_target.month
              arrow == PageDirection(n_calendar_month, k_target.month)
          IN  IF arrow = "none"
              THEN k_pc' = "date_day" /\ UNCHANGED << k_clicks, k_shown >>
              ELSE IF arrowOK
                   THEN /\ k_clicks' = Append(k_clicks, arrow)
                        /\ k_shown' = Paged(k_shown, arrow)
                        /\ k_pc' = "date_day"
                   ELSE k_pc' = "raise" /\ UNCHANGED << k_clicks, k_shown >>
    /\ UNCHANGED << k_date, k_time, k_dismissed >>
    /\ SchedRest

\* __date_picker, lines 1000-1028: the cell with the target's numeral is
\* clicked in the month on display
ClickDay ==
    /\ k_pc = "date_day"
    /\ \E found \in BOOLEAN :
          IF found
          THEN /\ k_clicks' = Append(k_clicks, "day")
               /\ k_date' = [year |-> k_shown.year, month |-> k_shown.month,
                             day |-> k_target.day]
               /\ k_pc' = "date_verify"
          ELSE k_pc' = "raise" /\ UNCHANGED << k_clicks, k_date >>
    /\ UNCHANGED << k_shown, k_time, k_dismissed >>
    /\ SchedRest

\* __verify_date_picked_is_correct, lines 1033-1051
VerifyDate ==
    /\ k_pc = "date_verify"
    /\ \E read \in {PickerValue(k_date.month, k_date.day), PickerEmpty, PickerText} :
          k_pc' = IF VerifyPicked(read, k_target.month, k_target.day) = "return"
                  THEN "time" ELSE "raise"
    /\ UNCHANGED << k_clicks, k_shown, k_date, k_time, k_dismissed >>
    /\ SchedRest

\* __time_picker, lines 1054-1102, and __verify_time_picked_is_correct: the
\* hour and the minute are clicked by their text; the input then holds the
\* target time, or keeps the time it had
PickTime ==
    /\ k_pc = "time"
    /\ \E ok, taken \in BOOLEAN :
          IF ~ ok
          THEN k_pc' = "raise" /\ UNCHANGED << k_clicks, k_time >>
          ELSE LET held == IF taken
                           THEN [hour |-> k_target.hour, minute |-> k_target.minute]
                           ELSE [hour |-> 12, minute |-> 0]
               IN  /\ k_clicks' = k_clicks \o << "time_input", "hour", "minute",
                                               "time_input" >>
                   /\ k_time' = held
                   /\ \E read \in {PickerValue(held.hour, held.minute),
                                   PickerEmpty, PickerText} :
                         k_pc' = IF VerifyPicked(read, k_target.hour,
                                                 k_target.minute) = "return"
                                 THEN "return" ELSE "raise"
    /\ UNCHANGED << k_shown, k_date, k_dismissed >>
    /\ SchedRest

NextSchedule ==
    \/ ReadTimezone
    \/ ClickToggle
    \/ DismissPopup
    \/ ReclickToggle
    \/ OpenCalendar
    \/ PageCalendar
    \/ ClickDay
    \/ VerifyDate
    \/ PickTime

SpecSchedule == InitSchedule /\ [][NextSchedule]_vars

\* ----------------------------------------- _set_description on its own
CaptionChars == {"a", " ", "#", "@"}

\* None, or a str
Captions == Entries(TextsUpTo(CaptionChars, MaxCaption))

InitEntry ==
    /\ CoordinatorQuiet
    /\ FormAtStart(DefaultFormArgs)
    /\ DescAtRest
    /\ SchedAtRest
    /\ UploaderAtRest
    /\ MinuteAtRest
    /\ e_caption \in Captions
    /\ e_pc = "begin"
    /\ e_pos = 1
    /\ e_field \in { << >>, << "x" >> }
    /\ e_errored = FALSE
    /\ e_fills = 0
    /\ e_clears = 0
    /\ e_picks = << >>

\* what the page may show after a word: the tag suggestion box or not, and
\* for a mention the elements of the user list
SuggestionTexts == { << "A", " ", "b" >>, << "b" >> }

Suggestions(most) ==
    UNION { [1..n -> [visible : BOOLEAN, text : SuggestionTexts]] : n \in 0..most }

Boxes(word) ==
    IF WordKind(word) = "mention"
    THEN { [shown |-> FirstAppears(l), list |-> l] : l \in Suggestions(MaxSuggest) }
    ELSE { [shown |-> b, list |-> << >>] : b \in BOOLEAN }

EntryRest ==
    UNCHANGED << zone, cvars, svars, fvars, dvars, kvars, uvars, mvars, e_caption >>

\* lines 414-438: nothing is done for None; else the field is waited for,
\* clicked and emptied
EntryBegin ==
    /\ e_pc = "begin"
    /\ IF ~ e_caption.present
       THEN e_pc' = "return" /\ UNCHANGED << e_field, e_errored >>
       ELSE \E ok \in BOOLEAN :
               IF ok
               THEN e_pc' = "typing" /\ e_field' = << >> /\ UNCHANGED e_errored
               ELSE e_pc' = "fallback" /\ e_errored' = TRUE /\ UNCHANGED e_field
    /\ UNCHANGED << e_pos, e_fills, e_clears, e_picks >>
    /\ EntryRest

\* lines 441-491: one turn of the for loop; an exception may leave the word
\* typed in part
EntryWord ==
    /\ e_pc = "typing"
    /\ e_pos <= Len(SplitOnSpace(e_caption.text, 1, << >>))
    /\ LET word == SplitOnSpace(e_caption.text, 1, << >>)[e_pos]
       IN  IF WordKind(word) = "error"
           THEN e_pc' = "fallback" /\ e_errored' = TRUE
                   /\ UNCHANGED << e_field, e_pos, e_picks >>
           ELSE \E ok, wraps \in BOOLEAN, box \in Boxes(word) :
                   IF ok
                   THEN /\ e_field' = e_field \o KeysFor(word, box)
                        /\ e_pos' = e_pos + 1
                        /\ e_picks' =
                              IF WordKind(word) = "mention"
                                    /\ FirstAppears(box.list)
                                    /\ FoundAt(word, box.list) >= 0
                              THEN Append(e_picks,
                                     [want |-> FoundAt(word, box.list) + 1,
                                      got |-> Landed(box.list,
                                                FoundAt(word, box.list), wraps)])
                              ELSE e_picks
                        /\ UNCHANGED << e_pc, e_errored >>
                   ELSE /\ \E n \in 0..Len(word) :
                              e_field' = e_field \o SubSeq(word, 1, n)
                        /\ e_pc' = "fallback"
                        /\ e_errored' = TRUE
                        /\ UNCHANGED << e_pos, e_picks >>
    /\ UNCHANGED << e_fills, e_clears >>
    /\ EntryRest

\* the for loop has gone through every word
EntryDone ==
    /\ e_pc = "typing"
    /\ e_pos > Len(SplitOnSpace(e_caption.text, 1, << >>))
    /\ e_pc' = "return"
    /\ UNCHANGED << e_pos, e_field, e_errored, e_fills, e_clears, e_picks >>
    /\ EntryRest

\* lines 493-497: the except clause clears the field and fills it
EntryFallback ==
    /\ e_pc = "fallback"
    /\ e_clears' = e_clears + 1
    /\ \E clearOK, selectsAll, fillOK \in BOOLEAN :
          IF ~ clearOK
          THEN e_pc' = "raise" /\ UNCHANGED << e_field, e_fills >>
          ELSE IF ~ fillOK
               THEN /\ e_pc' = "raise"
                    /\ e_field' = Cleared(e_field, selectsAll)
                    /\ e_fills' = e_fills + 1
               ELSE /\ e_pc' = "return"
                    /\ e_field' = Filled(Cleared(e_field, selectsAll),
                                        e_caption.text)
                    /\ e_fills' = e_fills + 1
    /\ UNCHANGED << e_pos, e_errored, e_picks >>
    /\ EntryRest

NextEntry ==
    \/ EntryBegin
    \/ EntryWord
    \/ EntryDone
    \/ EntryFallback

SpecEntry == InitEntry /\ [][NextEntry]_vars

\* ------------------------------------------- a TikTokUploader on its own
\* schedules twenty minutes or more ahead of the clock of CoordinatorQuiet,
\* and less
SoonEnough == [wall |-> 1440 + 62, s |-> 0, us |-> 0]
TooSoon == [wall |-> 1440 + 10, s |-> 0, us |-> 0]

\* the video dicts: what a failing check never looks at is left at its default
VideoDicts ==
    { [path |-> p, schedule |-> None, formOK |-> TRUE] : p \in {"invalid", "vanishes"} }
       \cup { [path |-> "valid", schedule |-> sc, formOK |-> f] :
                 sc \in {None, [tz |-> "naive", at |-> SoonEnough]}, f \in BOOLEAN }
       \cup { [path |-> "valid", schedule |-> sc, formOK |-> TRUE] :
                 sc \in { [tz |-> "naive", at |-> TooSoon],
                          [tz |-> "utc", at |-> SoonEnough],
                          [tz |-> "other", at |-> SoonEnough] } }

Batches(most) == UNION { [1..n -> VideoDicts] : n \in 0..most }

InitUploader ==
    /\ CoordinatorQuiet
    /\ FormAtStart(DefaultFormArgs)
    /\ DescAtRest
    /\ SchedAtRest
    /\ EntryAtRest
    /\ MinuteAtRest
    /\ u_page = "none"
    /\ u_starts = 0
    /\ u_ctx = "out"
    /\ u_last = NoCall
    /\ u_batch \in Batches(MaxBatch)

UploaderRest ==
    UNCHANGED << zone, cvars, svars, fvars, dvars, kvars, evars, mvars, u_batch >>

\* with uploader: __enter__ returns the uploader
Enter ==
    /\ u_ctx = "out"
    /\ u_ctx' = "in"
    /\ u_last' = [NoCall EXCEPT !.op = "enter", !.before = u_page]
    /\ UNCHANGED << u_page, u_starts >>
    /\ UploaderRest

\* whether get_browser, authenticate_agent return: asked only when no page
\* is stored
Answering == IF u_page = "none" THEN BOOLEAN ELSE {TRUE}

\* a read of uploader.page, lines 68-84
AccessPage ==
    /\ u_page # "none" \/ u_starts < MaxStarts
    /\ \E browserOK, authOK \in Answering :
          LET p == PageProperty(u_page, browserOK, authOK)
          IN  /\ u_page' = p.page
              /\ u_starts' = u_starts + (IF p.started THEN 1 ELSE 0)
              /\ u_last' = [NoCall EXCEPT !.op = "page", !.before = u_page,
                                          !.why = IF p.ok THEN "none" ELSE "page",
                                          !.started = p.started,
                                          !.used = IF p.ok THEN p.page ELSE "none"]
    /\ UNCHANGED u_ctx
    /\ UploaderRest

\* one call of upload_videos, lines 125-230
UploadVideos ==
    /\ u_page # "none" \/ u_starts < MaxStarts
    /\ \E browserOK, authOK \in Answering,
          on_complete \in {"none", "returns", "raises"} :
          LET r == upload_videos(u_batch, u_page, clock, zone, browserOK, authOK,
                                 on_complete)
          IN  /\ u_page' = r.page
              /\ u_starts' = u_starts + (IF r.started THEN 1 ELSE 0)
              /\ u_last' = [op |-> "upload", why |-> r.why,
                            attempted |-> r.attempted, failed |-> r.failed,
                            formed |-> r.formed,
                            used |-> IF r.formed = << >> THEN "none" ELSE r.used,
                            started |-> r.started, before |-> u_page]
    /\ UNCHANGED u_ctx
    /\ UploaderRest

\* close(), lines 232-239
Close ==
    /\ \E closeOK \in BOOLEAN : u_page' = close(u_page, closeOK)
    /\ u_last' = [NoCall EXCEPT !.op = "close", !.before = u_page]
    /\ UNCHANGED << u_starts, u_ctx >>
    /\ UploaderRest

\* the with block is left, by its end or by an exception: __exit__, line 245
Exit ==
    /\ u_ctx = "in"
    /\ u_ctx' = "left"
    /\ \E closeOK \in BOOLEAN : u_page' = close(u_page, closeOK)
    /\ u_last' = [NoCall EXCEPT !.op = "exit", !.before = u_page]
    /\ UNCHANGED u_starts
    /\ UploaderRest

NextUploader ==
    \/ Enter
    \/ AccessPage
    \/ UploadVideos
    \/ Close
    \/ Exit

SpecUploader == InitUploader /\ [][NextUploader]_vars

\* ------------------------------- _get_valid_schedule_minute on its own
\* schedules in UTC: every minute of an hour of the morning and of the last
\* hour of a day, with and without seconds
MinuteInputs ==
    { [t |-> 1440 + 60 * h + m, s |-> sec, us |-> 0, off |-> 0] :
        h \in {10, 23}, m \in 0..59, sec \in {0, 30} }

InitMinute ==
    /\ CoordinatorQuiet
    /\ FormAtStart(DefaultFormArgs)
    /\ DescAtRest
    /\ SchedAtRest
    /\ EntryAtRest
    /\ UploaderAtRest
    /\ m_in \in MinuteInputs
    /\ m_out = << >>

\* line 193 once, and once more on its own result
AdjustMinute ==
    /\ Len(m_out) < 2
    /\ m_out' = Append(m_out, get_valid_schedule_minute(
                                 IF m_out = << >> THEN m_in ELSE m_out[Len(m_out)]))
    /\ UNCHANGED << zone, cvars, svars, fvars, dvars, kvars, evars, uvars, m_in >>

NextMinute == AdjustMinute

SpecMinute == InitMinute /\ [][NextMinute]_vars

\* ================================================================== claims
InRun == pc \in {"phase1", "loop", "saving"}
CallIdx == 1..Len(calls)
RecIdx == 1..Len(recorded)

\* C1: a file name is recorded in 'uploaded' (and last_slot set, the state
\* saved) only for an item whose upload_video reported success; an item that
\* failed by an exception or by a False return leaves the state alone.
C1_RecordedOnlyOnSuccess ==
    /\ \A k \in RecIdx : recorded[k].result = "true"
    /\ pc = "saving" => calls[Len(calls)].result = "true"

\* C2: a run never hands to recognition, to the slot allocator or to the
\* uploader a file whose name is in the persisted 'uploaded' list.
C2_NeverReprocessed ==
    /\ pc = "phase1" =>
          /\ \A i \in 1..Len(videos) :
                videos[i] \notin Range(load_state(file).uploaded)
          /\ Len(slots) = Len(videos)
    /\ \A i \in CallIdx : ~ calls[i].done

C2_Witness ==
    /\ runs = 2
    /\ pc = "saving"
    /\ Len(videos) < Cardinality(dir)
    /\ Range(load_state(file).uploaded) # {}

\* C3: no two items recorded in 'uploaded' were handed to the uploader with
\* the same slot timestamp.
C3_DistinctSlots ==
    \A i, j \in RecIdx : i # j => recorded[i].naive # recorded[j].naive

\* C4: the persisted last_slot, once set, stays set and never decreases.
C4_LastSlotMonotone ==
    [][ file.doc.last_slot # None =>
           /\ file'.doc.last_slot # None
           /\ ~ Before(fromisoformat(file'.doc.last_slot),
                       fromisoformat(file.doc.last_slot)) ]_vars

C4_Witness ==
    /\ runs = 2
    /\ pc = "loop"
    /\ Len(calls) = 1
    /\ Len(recorded) = 2
    /\ recorded[2].t > recorded[1].t

\* C5: after a kill during Phase 2 the next run submits again at most one
\* item that had already been submitted successfully, skips every item whose
\* success had been saved, and allocates its slots after the last saved slot.
C5_CrashLosesAtMostInFlight ==
    /\ Cardinality({ i \in CallIdx : calls[i].again }) <= 1
    /\ \A i \in CallIdx : ~ calls[i].saved
    /\ \A i \in CallIdx : calls[i].after

\* C6: upload_all attempts every (item, slot) pair once, in list order,
\* whatever happened to the earlier items.
C6_EveryPairOnceInOrder ==
    /\ (pc \in {"loop", "saving"} \/ summary # None) =>
          \A i \in CallIdx :
             /\ i <= Len(jobs)
             /\ calls[i].name = jobs[i]
             /\ calls[i].naive = StripTz(slots[i])
    /\ pc = "loop" => Len(calls) = idx - 1
    /\ pc = "saving" => Len(calls) = idx
    /\ summary # None => Len(calls) = Len(jobs) /\ Len(jobs) = Len(slots)

C6_Witness ==
    /\ summary # None
    /\ Len(calls) = 2
    /\ calls[1].result = "raise"
    /\ calls[2].result = "true"

\* C7: the summary's failed list names every item whose publish attempt did
\* not succeed and its 'scheduled' count is the number of items scheduled.
C7_SummaryTruthful ==
    summary # None =>
       /\ \A i \in CallIdx :
             calls[i].result # "true" => calls[i].name \in Range(summary.failed)
       /\ summary.scheduled =
             Cardinality({ i \in CallIdx : calls[i].result = "true" })

C9_HourlySteps ==
    spc = "ret" =>
       /\ Len(out_slots) = in_count
       /\ \A i \in 1..(Len(out_slots) - 1) :
             LET a == out_slots[i]
                 b == out_slots[i + 1]
             IN  /\ Before(a, b)
                 /\ IF Hour(a) = WINDOW_END_HOUR
                    THEN /\ DayOf(b) = DayOf(a) + 1
                         /\ Hour(b) = WINDOW_START_HOUR
                         /\ Minute(b) = 0
                    ELSE b.t = a.t + 60

C9_Witness ==
    /\ spc = "ret"
    /\ Len(out_slots) = 3
    /\ Hour(out_slots[2]) = WINDOW_END_HOUR
    /\ Hour(out_slots[3]) = WINDOW_START_HOUR

\* C10: the first slot is on an hour boundary and not before
\* now + SCHEDULE_BUFFER_MIN; rounding and clamping never move the candidate
\* backward.
C10_FirstSlotAfterBuffer ==
    spc = "ret" =>
       LET e == Earliest(in_now, in_last)
           r == RoundUpHour(e)
       IN  /\ Minute(out_slots[1]) = 0
           /\ out_slots[1].s = 0
           /\ out_slots[1].us = 0
           /\ ~ Before(out_slots[1], AddMinutes(in_now, SCHEDULE_BUFFER_MIN))
           /\ ~ Before(r, e)
           /\ ~ Before(out_slots[1], r)

C10_Witness ==
    /\ spc = "ret"
    /\ in_last # None
    /\ Before(AddMinutes(in_last, 60), AddMinutes(in_now, SCHEDULE_BUFFER_MIN))
    /\ Minute(in_now) = 35
    /\ in_now.us = 1
    /\ out_slots[1].t = in_now.t + SCHEDULE_BUFFER_MIN + 60

\* C11: with a last_slot the first slot is later than last_slot by at least
\* one hour, whatever the clock says.
C11_FirstSlotAfterLast ==
    (spc = "ret" /\ in_last # None) =>
       /\ Before(in_last, out_slots[1])
       /\ ~ Before(out_slots[1], AddMinutes(in_last, 60))

C11_Witness ==
    /\ spc = "ret"
    /\ in_last # None
    /\ in_now.t + 1440 < in_last.t
    /\ out_slots[1].t = in_last.t + 60

\* the wall-clock minute of day `day` at hour:00
WallAt(day, hour) == day * 1440 + hour * 60

\* the case of C12: no prior state, now = 08:50:00 local, three slots
C12_Case ==
    /\ spc = "ret"
    /\ in_last = None
    /\ Hour(in_now) = 8
    /\ Minute(in_now) = 50
    /\ in_now.s = 0
    /\ in_now.us = 0
    /\ in_count = 3

\* C12 (as stated): the three slots are 09:00, 10:00 and 11:00 of the day.
C12_Original ==
    C12_Case =>
       /\ Wall(out_slots[1]) = WallAt(DayOf(in_now), 9)
       /\ Wall(out_slots[2]) = WallAt(DayOf(in_now), 10)
       /\ Wall(out_slots[3]) = WallAt(DayOf(in_now), 11)

\* C12 (amended): now + 25 min is 09:15, which rounds up to 10:00; the three
\* slots are 10:00, 11:00 and 12:00 of the day.
C12_Amended ==
    C12_Case =>
       /\ Wall(out_slots[1]) = WallAt(DayOf(in_now), 10)
       /\ Wall(out_slots[2]) = WallAt(DayOf(in_now), 11)
       /\ Wall(out_slots[3]) = WallAt(DayOf(in_now), 12)

C12_Witness == C12_Case /\ Len(out_slots) = 3 /\ Hour(out_slots[1]) = 10

C19_InvalidRejectedWithoutUI ==
    \A i \in CallIdx :
       (~ calls[i].pathOK \/ ~ calls[i].schedOK) =>
          /\ calls[i].result = "false"
          /\ ~ calls[i].started

\* C20: recognise_all has returned the whole jobs list before the first
\* upload starts; an upload starts only after the one before it has finished
\* and, if it was recorded, its state has been saved.
C20_PhaseOrder ==
    /\ pc = "phase1" => calls = << >>
    /\ pc \in {"loop", "saving"} => jobs = videos
    /\ pc = "saving" => Len(calls) = idx
    /\ InRun =>
          \A i \in CallIdx :
             (i < Len(calls) /\ calls[i].result # "raise") =>
                calls[i].name \in Range(load_state(file).uploaded)

C20_Witness ==
    /\ pc = "saving"
    /\ Len(jobs) = 2
    /\ Len(calls) = 2
    /\ calls[1].result = "true"
    /\ calls[1].name \in Range(load_state(file).uploaded)

FormEnded == f_pc \in {"return", "raise"}

\* C14 (as stated): the post button is clicked only after the media was
\* confirmed as processed and the description step completed; an item whose
\* media or description step could not be completed gets no post click.
C14_SubmitOnlyWhenReady ==
    /\ f_post.clicks > 0 => (f_media /\ f_desc # "none")
    /\ f_abortedAt \in {"set_video", "set_description"} => f_post.clicks = 0

\* C15 (as stated): when every one of the num_retries attempts of _set_video
\* has timed out, the step ends with an exception that aborts the item.
C15_TimeoutsAreFatal ==
    (f_timeouts = f_args.num_retries /\ f_pc # "set_video") =>
       f_abortedAt = "set_video"

\* C16 (as stated): when _set_schedule_video returns normally, the date read
\* back is the target month and day and the time read back is the target
\* hour and minute; an empty or unparsable read-back makes the step fail.
C16_ReadBackEqualsTarget ==
    f_sched.done =>
       /\ f_sched.date = PickerValue(f_args.schedule.month, f_args.schedule.day)
       /\ f_sched.time = PickerValue(f_args.schedule.hour, f_args.schedule.minute)

\* _post_video has ended, one way or the other
PostEnded == FormEnded /\ f_post.clicks > 0

\* what C17 says of the end of _post_video: a normal return only with the
\* confirmation observed, an exception otherwise
C17_ReturnOnlyConfirmed ==
    /\ f_pc = "return" => f_post.confirmed
    /\ PostEnded => (f_post.confirmed <=> f_pc = "return")
    /\ (PostEnded /\ ~ f_post.confirmed) => f_abortedAt = "post_video"

C18_OptionalNeverAborts ==
    /\ f_abortedAt \notin OptionalSteps
    /\ \A s \in f_optFailed :
          /\ s \in Range(f_trace)
          /\ f_pc # s
          /\ f_abortedAt # "none" => StepIndex(f_abortedAt) > StepIndex(s)
          /\ f_pc \in {"polling", "return"} =>
                \A i \in (StepIndex(s) + 1)..Len(FormSteps) :
                   StepCalled(FormSteps[i], f_args) =>
                      FormSteps[i] \in Range(f_trace)

C18_Witness ==
    /\ f_pc = "return"
    /\ f_optFailed = OptionalSteps
    /\ f_post.confirmed
    /\ f_post.clicks = 1

\* C21: an item whose audio extraction or recognition failed gets exactly
\* DEFAULT_TAGS as its description, is uploaded at its own position with its
\* own slot, and the batch goes on: every pending item is recognised before
\* the uploads start and every item is handed to the uploader.
C21_RecognitionFailureIsLocal ==
    /\ pc = "phase1" => \A i \in 1..Len(descs) :
                           descs[i].failed => descs[i].text = DEFAULT_TAGS
    /\ pc \in {"loop", "saving"} => Len(descs) = Len(videos)
    /\ InRun => \A i \in CallIdx :
          calls[i].recFailed =>
             /\ calls[i].description = DEFAULT_TAGS
             /\ calls[i].name = videos[i]
             /\ calls[i].naive = StripTz(slots[i])
    /\ summary # None => (Len(descs) = Len(jobs) /\ Len(calls) = Len(jobs))

C21_Witness ==
    /\ summary # None
    /\ Len(calls) = 2
    /\ calls[1].recFailed
    /\ calls[1].description = DEFAULT_TAGS
    /\ ~ calls[2].recFailed
    /\ calls[2].description # DEFAULT_TAGS
    /\ calls[2].result = "true"

HasTrack == d_in # None /\ d_in # NoTrack
TitleOf == Strip(GetOrEmpty(d_in.track.title))
ArtistOf == Strip(GetOrEmpty(d_in.track.subtitle))

\* C22: build_description returns exactly DEFAULT_TAGS for no result, for a
\* result without a track, and for a track whose title and artist are both
\* empty or whitespace.
C22_DefaultWhenNothingRecognised ==
    (d_pc = "ret" /\ (~ HasTrack \/ (TitleOf = << >> /\ ArtistOf = << >>))) =>
       d_out = DEFAULT_TAGS

C22_Witness ==
    /\ d_pc = "ret"
    /\ d_in = Track(Text(<< " " >>), Missing)
    /\ d_out = DEFAULT_TAGS

\* a '#' that stands alone between spaces or string ends
HasBareHash(s) ==
    \E i \in 1..Len(s) :
       /\ s[i] = "#"
       /\ (i = 1 \/ s[i - 1] = " ")
       /\ (i = Len(s) \/ s[i + 1] = " ")

\* C23 (as stated): when cleaning leaves both the title and the artist empty,
\* build_description returns exactly DEFAULT_TAGS, and no bare '#' token is
\* emitted.
C23_EmptyAfterCleaning ==
    (d_pc = "ret" /\ HasTrack /\ clean_text(TitleOf) = << >>
        /\ clean_text(ArtistOf) = << >>) =>
       (d_out = DEFAULT_TAGS /\ ~ HasBareHash(d_out))

RECURSIVE NonBlank(_)
NonBlank(names) ==
    IF names = << >> THEN << >>
    ELSE IF Strip(Head(names)) = << >> THEN NonBlank(Tail(names))
    ELSE << Strip(Head(names)) >> \o NonBlank(Tail(names))

\* one leading '#', then a body that does not start with another '#'
IsHashtag(w) == Len(w) >= 2 /\ w[1] = "#" /\ w[2] # "#"

HashLoverAB ==
    << "#", "L", "o", "v", "e", "r", " ", "#", "A", " ", "#", "B", " " >>

\* C24 (as stated): for a non-empty title and artist the description is the
\* title's hashtag, one hashtag per artist name in the original order, then
\* MUSIC_TAGS, separated by single spaces, each hashtag with exactly one
\* leading '#'; 'Lover [Official Video]' by 'A & B' gives
\* '#Lover #A #B ' followed by MUSIC_TAGS.
C24_TagsInOrder ==
    (d_pc = "ret" /\ HasTrack /\ TitleOf # << >> /\ ArtistOf # << >>) =>
       LET names == NonBlank(SplitArtists(ArtistOf, 1, << >>))
           n == 1 + Len(names)
           tags == << to_hashtag(TitleOf) >>
                      \o [i \in 1..Len(names) |-> to_hashtag(names[i])]
       IN  /\ d_out = JoinSpace(tags \o << MUSIC_TAGS >>)
           /\ \A i \in 1..n : IsHashtag(tags[i])
           /\ Len(Words(d_out, 1, << >>)) = n + Len(Words(MUSIC_TAGS, 1, << >>))
           /\ (TitleOf = LoverOfficialVideo
                  /\ ArtistOf = << "A", " ", "&", " ", "B" >>) =>
                 d_out = HashLoverAB \o MUSIC_TAGS

\* C25 (as stated): upload_video always ends by returning True or False; a
\* path that does not exist or has an unsupported type gives False, never an
\* exception.
C25_AlwaysBoolean ==
    \A i \in CallIdx :
       /\ calls[i].result \in {"true", "false"}
       /\ ~ calls[i].pathOK => calls[i].result = "false"

\* the order of the steps as C26 states it, and when each is to be executed
C26_Order ==
    << "go_to_upload", "remove_cookies_window", "dismiss_feature_popup",
       "set_video", "dismiss_feature_popup_again", "set_sound", "set_cover",
       "remove_split_window", "set_interactivity", "set_description",
       "set_visibility", "set_schedule", "add_product_link", "post_video" >>

C26_Due(step) ==
    CASE step = "set_sound" -> f_args.sound
      [] step = "set_cover" -> f_args.cover
      [] step = "remove_split_window" -> ~ f_args.skip_split_window
      [] step = "set_visibility" -> f_args.visibility # "everyone"
      [] step = "set_schedule" -> f_args.schedule # None
      [] step = "add_product_link" -> f_args.product
      [] OTHER -> TRUE

\* the due steps, in the stated order
C26_DueSteps == SelectSeq(C26_Order, C26_Due)

\* C26: the steps that have run are the first due steps, in the stated order
\* and each once; the step in progress is the next due one; a normal return
\* means every due step has run.
C26_StepsInOrder ==
    /\ Len(f_trace) <= Len(C26_DueSteps)
    /\ f_trace = SubSeq(C26_DueSteps, 1, Len(f_trace))
    /\ f_pc \in Range(C26_Order) =>
          /\ Len(f_trace) < Len(C26_DueSteps)
          /\ f_pc = C26_DueSteps[Len(f_trace) + 1]
    /\ f_pc = "return" => f_trace = C26_DueSteps

C26_Witness ==
    /\ f_pc = "return"
    /\ f_trace = C26_Order

\* C27 (as stated): a failing schedule step raises and no post click follows;
\* an item that was given a schedule gets a post click only after the
\* schedule step returned with the date and the time read back equal to the
\* target.
C27_NeverWrongSchedule ==
    /\ f_abortedAt = "set_schedule" => (f_pc = "raise" /\ f_post.clicks = 0)
    /\ (f_args.schedule # None /\ f_post.clicks > 0) =>
          /\ f_sched.done
          /\ f_sched.date.kind = "value"
          /\ f_sched.date.a = f_args.schedule.month
          /\ f_sched.date.b = f_args.schedule.day
          /\ f_sched.time.kind = "value"
          /\ f_sched.time.a = f_args.schedule.hour
          /\ f_sched.time.b = f_args.schedule.minute

\* C28 (as stated): when the day cell is clicked the calendar displays the
\* target's month, the arrows having been clicked as many times as there are
\* months between the month first displayed and the target's, in the
\* target's direction.
C28_PagedToTargetMonth ==
    "day" \in Range(k_clicks) => k_shown = TargetMonth(k_target)

ToggleClicks ==
    Len(SelectSeq(k_clicks, LAMBDA c : c \in {"schedule_label", "schedule_radio"}))

\* C29 (as stated): once the date picker is reached, the toggle has been
\* clicked twice if a popup was dismissed and once if none was, the second
\* click coming after the dismissal; only the close control of the popup is
\* ever clicked.
C29_RetoggleAfterDismissal ==
    /\ "replace_video" \notin Range(k_clicks)
    /\ (k_target # None /\ k_pc \notin {"timezone", "toggle", "popup", "retoggle", "raise"}) =>
          ToggleClicks = (IF k_dismissed THEN 2 ELSE 1)
    /\ "date_input" \in Range(k_clicks) =>
          ToggleClicks = (IF k_dismissed THEN 2 ELSE 1)

\* C30: when the except clause of _set_description is entered, the field is
\* cleared once and filled once with the original description; the step then
\* returns with the field holding exactly that description, and it raises
\* only when the clearing or the fill itself fails. An empty word (empty
\* description, consecutive spaces) is such an error.
C30_FallbackFillsCaption ==
    /\ (e_pc = "return" /\ e_errored) =>
          (e_field = e_caption.text /\ e_fills = 1 /\ e_clears = 1)
    /\ e_pc = "raise" => (e_errored /\ e_clears = 1)
    /\ e_errored => e_pc \in {"fallback", "return", "raise"}
    /\ ~ e_errored => (e_fills = 0 /\ e_clears = 0)
    /\ (e_pc = "return" /\ e_caption.present
          /\ << >> \in Range(SplitOnSpace(e_caption.text, 1, << >>))) => e_errored

C30_Witness ==
    /\ e_pc = "return"
    /\ e_errored
    /\ e_caption = Text(<< "a", " ", " " >>)
    /\ e_field = e_caption.text

LastUpload == u_last.op = "upload"

\* the positions of the list whose video did not get through: path, schedule
\* or form
FailedOf(batch) ==
    SelectSeq([k \in 1..Len(batch) |-> k],
              LAMBDA k : \/ batch[k].path # "valid"
                         \/ batch[k].schedule \notin
                               {None, [tz |-> "naive", at |-> SoonEnough]}
                         \/ ~ batch[k].formOK)

\* C33 (as stated): a call of upload_videos with several videos, a page and
\* no failing callback returns a list; every video of the list was attempted
\* and the returned list holds exactly the failed ones, in input order.
C33_BatchContinues ==
    (LastUpload /\ Len(u_batch) > 1
        /\ u_last.why \notin {"page", "callback"}) =>
       /\ u_last.why = "none"
       /\ u_last.attempted = Len(u_batch)
       /\ u_last.failed = FailedOf(u_batch)

\* C34: a new uploader has no page and has started no browser; a call starts
\* a browser only when no page is stored, and at most one; a read of page
\* that finds a page stored returns that page; after close and after the
\* with block no page is stored.
C34_BrowserLifecycle ==
    /\ u_last.op = "none" => (u_page = "none" /\ u_starts = 0)
    /\ u_last.started => u_last.before = "none"
    /\ (u_last.op \in {"page", "upload"} /\ u_last.before # "none") =>
          (u_page = u_last.before /\ ~ u_last.started)
    /\ (u_last.op = "page" /\ u_last.before # "none") =>
          u_last.used = u_last.before
    /\ (u_last.op = "page" /\ u_last.before = "none" /\ u_page # "none") =>
          u_last.started
    /\ u_last.op \in {"close", "exit"} => u_page = "none"
    /\ u_ctx = "left" => (u_starts = 0 \/ u_last.op # "enter")
    /\ (u_page = "none" /\ u_starts = 0) => u_last.used = "none"

C34_Witness ==
    /\ u_starts = 2
    /\ u_last.op = "page"
    /\ u_last.before = "none"
    /\ u_last.started
    /\ u_ctx = "left"

\* C35 (as stated): a page that the page property returns, or that a form
\* runs on, has gone through authenticate_agent without an exception.
C35_OnlyAuthenticatedPages ==
    u_last.used \in {"none", "auth"}

\* the parts of C36 that the claim lists: minute divisible by 5, at most 4
\* minutes later, hour and day rolled over from minutes 56..59, a valid
\* minute left alone, a second application changing nothing
C36_Listed ==
    Len(m_out) >= 1 =>
       /\ Minute(m_out[1]) % 5 = 0
       /\ m_out[1].t - m_in.t \in 0..4
       /\ m_out[1].s = m_in.s /\ m_out[1].us = m_in.us
       /\ Minute(m_in) >= 56 =>
             /\ Minute(m_out[1]) = 0
             /\ Hour(m_out[1]) = (Hour(m_in) + 1) % 24
             /\ DayOf(m_out[1]) = DayOf(m_in) + (IF Hour(m_in) = 23 THEN 1 ELSE 0)
       /\ Minute(m_in) % 5 = 0 => m_out[1] = m_in
       /\ Len(m_out) = 2 => m_out[2] = m_out[1]

\* the instants from the schedule up to the result, seconds taken from secs
C36_Between(secs) ==
    { [t |-> t, s |-> sec, us |-> 0, off |-> 0] :
         t \in m_in.t..(m_in.t + 5), sec \in secs }

\* C36 (as stated): the result is the earliest time not before the schedule
\* whose minute is a multiple of 5, and the listed parts hold.
C36_Original ==
    /\ C36_Listed
    /\ Len(m_out) >= 1 =>
          \A x \in C36_Between({0, 30}) :
             (~ Before(x, m_in) /\ Minute(x) % 5 = 0) => ~ Before(x, m_out[1])

\* C36 (amended): the result is the earliest time not before the schedule
\* whose minute is a multiple of 5 among the times that have the schedule's
\* seconds and microseconds, which the function keeps; the listed parts hold.
C36_Amended ==
    /\ C36_Listed
    /\ Len(m_out) >= 1 =>
          \A x \in C36_Between({m_in.s}) :
             (~ Before(x, m_in) /\ Minute(x) % 5 = 0) => ~ Before(x, m_out[1])

C36_Witness ==
    /\ Len(m_out) = 2
    /\ Hour(m_in) = 23
    /\ Minute(m_in) = 58
    /\ m_in.s = 30
    /\ DayOf(m_out[1]) = DayOf(m_in) + 1
    /\ Hour(m_out[1]) = 0

\* C37 (as stated): the slot of every upload_video call of a run passes
\* _check_valid_schedule at the moment of the call.
C37_SlotsStillValid ==
    \A k \in CallIdx : calls[k].schedOK

\* the instant t (a whole minute) is not before now + buffer nor before one
\* hour after last_slot
C38_NotBeforeBound(t) ==
    /\ \/ t > in_now.t + SCHEDULE_BUFFER_MIN
       \/ t = in_now.t + SCHEDULE_BUFFER_MIN /\ in_now.s = 0 /\ in_now.us = 0
    /\ in_last # None => t >= in_last.t + 60

\* the instant t is a whole hour inside the window on the clock of offset off
C38_InWindow(t, off) ==
    /\ (t + off) % 60 = 0
    /\ ((t + off) \div 60) % 24 >= WINDOW_START_HOUR
    /\ ((t + off) \div 60) % 24 <= WINDOW_END_HOUR

C31_HashtagConfirmed ==
    LET words == SplitOnSpace(e_caption.text, 1, << >>)
    IN  (/\ e_pc = "typing"
         /\ e_pos > 1
         /\ e_pos <= Len(words)
         /\ WordKind(words[e_pos - 1]) = "hashtag"
         /\ WordKind(words[e_pos]) # "error") =>
            e_field[Len(e_field)] \in {"Enter", " "}

\* C32 (as stated): a suggestion taken with Enter is the very element whose
\* handle matched the word; a mention with no match, or whose lookup timed
\* out, leaves the word and a space in the field and raises nothing.
C32_MentionLandsOnMatch ==
    \A k \in 1..Len(e_picks) : e_picks[k].got = e_picks[k].want

\* the counted loops and the deadline keep every wait of the form within
\* its limit
C39_WithinLimits ==
    /\ f_waits.enable # "over"
    /\ f_waits.cover # "over"
    /\ f_timeouts <= f_args.num_retries
    /\ f_post.polls <= MaxPolls
    /\ f_post.seen <= f_post.polls

\* C39: every wait of the form is bounded, so complete_upload_form always
\* ends, by returning or by raising, whatever the page does: the loop that
\* waits for the post button makes at most uploading_wait/2 turns, the
\* polling loop ends at its deadline even when a popup is there in every
\* turn, the cover loop makes at most 20 turns and the media loop at most
\* num_retries attempts.
C39_BoundedWaits == <>FormEnded /\ []C39_WithinLimits

\* a call that ended after both counted loops ran, every media attempt timed
\* out, and a popup was dismissed in every turn up to the deadline
C39_Witness ==
    /\ FormEnded
    /\ f_timeouts = f_args.num_retries
    /\ f_waits.cover = "within"
    /\ f_waits.enable = "within"
    /\ f_post.polls = MaxPolls
    /\ f_post.seen = MaxPolls
    /\ f_post.closed = MaxPolls

\* a letter or a digit, as str.isalnum tells for the characters of the model
IsAlnum(c) ==
    \/ LetterIndex(Lowers, c, 1) > 0
    \/ LetterIndex(Uppers, c, 1) > 0
    \/ c \in {"0", "1", "2", "3", "4", "5", "6", "7", "8", "9"}

\* the words of the returned description that stand before MUSIC_TAGS
DerivedTags ==
    LET all == Words(d_out, 1, << >>)
    IN  SubSeq(all, 1, Len(all) - Len(Words(MUSIC_TAGS, 1, << >>)))

\* C40 (as stated): every hashtag that build_description derives from a
\* title or an artist name is '#' followed only by letters and digits; the
\* other characters of the cleaned text are dropped.
C40_HashtagsAlphanumeric ==
    (d_pc = "ret" /\ HasTrack /\ (TitleOf # << >> \/ ArtistOf # << >>)) =>
       \A i \in 1..Len(DerivedTags) :
          /\ DerivedTags[i][1] = "#"
          /\ \A k \in 2..Len(DerivedTags[i]) : IsAlnum(DerivedTags[i][k])

====
